---- MODULE Spec2Model ----
(***************************************************************************)
(* Model of the review-processing pipeline of the Sentiment app            *)
(* (Pages/2_Analysis.py): the "Process Data" handler, process_reviews and  *)
(* the pure helpers it calls, among them extract_aspects_from_sentence,    *)
(* which is also modelled token by token, and of the report page          *)
(* (Pages/3_Report.py): generate_dynamic_content_universal.                *)
(*                                                                         *)
(* Representation.                                                         *)
(*  - A text is known to the code only through what the external services *)
(*    answer on it and through its length.  A sentence is therefore the    *)
(*    record [lab, conf, asp, len, pad]: the raw label and the confidence  *)
(*    the classifier answers on it, the aspects the extractor answers on   *)
(*    it, the number of characters before its trailing white space, and    *)
(*    the number of trailing white-space characters.                       *)
(*  - Numbers that are floats in the source are exact rationals            *)
(*    [num, den] with den > 0; binary rounding is not modelled.            *)
(*  - Raw labels are sequences of one-character strings, so that upper()   *)
(*    and the substring test of map_sentiment are computed, not assumed.   *)
(***************************************************************************)
EXTENDS Integers, Sequences, FiniteSets, TLC

VARIABLES
    df,                     \* the uploaded dataset: a sequence of rows [review, nps]
    nps_col,                \* the selected NPS column: None or a column name
    faults,                 \* the ways the classifier service may fail in this environment
    session_state,          \* st.session_state: [processed_data, summary_data]
    pc,                     \* position of the "Process Data" handler
    run,                    \* number of handler runs finished so far
    all_sentences,          \* process_reviews: texts handed to the classifier
    sentence_map,           \* process_reviews: (idx, review, sentence.strip())
    sentiment_results,      \* process_reviews: collected classifier results
    batch_start,            \* process_reviews: loop variable i of the batch loop
    calls,                  \* the batches the classifier was invoked on, in order
    fault,                  \* how a classifier call of this run failed ("none" if none did)
    full_data,              \* process_reviews: rows of the detail table
    summary_sentiment_map,  \* process_reviews: review_idx -> list of observations
    summary_data,           \* process_reviews: rows of the summary table
    blend_log,              \* per review: model_score, nps_val, blended_score of the loop body
    tagged_words,           \* extract_aspects_from_sentence: pos_tag(word_tokenize(text.lower()))
    token_i,                \* extract_aspects_from_sentence: tokens consumed by the for loop
    current_aspect_phrase,  \* extract_aspects_from_sentence: the running phrase
    potential_aspects,      \* extract_aspects_from_sentence: the candidate list
    extracted,              \* extract_aspects_from_sentence: the returned list
    xpc,                    \* position of extract_aspects_from_sentence
    aspect_name,            \* generate_dynamic_content_universal: its first argument
    negative_contexts,      \* generate_dynamic_content_universal: its second argument
    draws,                  \* how many entries of a list random.choice reaches
    rpc,                    \* position of generate_dynamic_content_universal
    doc,                    \* generate_dynamic_content_universal: doc
    problem_words_in_context, \* generate_dynamic_content_universal: problem_words_in_context
    potential_subject_nouns,  \* generate_dynamic_content_universal: potential_subject_nouns
    cat_idx,                \* the category of the loop of line 218
    pat_idx,                \* the pattern of the loop of line 219
    identified_patterns,    \* the Counter of line 216: [key, n] in first-seen order
    match_log,              \* the matches in the order they were counted
    analysis_lines,         \* generate_dynamic_content_universal: analysis_lines
    primary_pattern_info,   \* generate_dynamic_content_universal: primary_pattern_info
    dominant_category,      \* generate_dynamic_content_universal: dominant_category
    secondary_patterns_added, \* generate_dynamic_content_universal: secondary_patterns_added
    recommendation_lines,   \* generate_dynamic_content_universal: recommendation_lines
    used_rec_templates,     \* generate_dynamic_content_universal: used_rec_templates
    available_general_recs, \* generate_dynamic_content_universal: available_general_recs
    added_rec_count,        \* generate_dynamic_content_universal: added_rec_count
    report,                 \* the returned text: its analysis and recommendation lines
    earlier,                \* what an earlier call on the same arguments found (line 722)
    chart_data,             \* st.session_state.chart_data: chart key -> figure
    negative_analysis_data, \* st.session_state.negative_analysis_data: aspect -> text
    shown,                  \* what the last script run of a page put on the screen
    pdf                     \* the arguments the last PDF was generated from

\* The session and the locals of the "Process Data" handler.
pipeline_vars == <<df, nps_col, faults, session_state, pc, run, all_sentences,
                   sentence_map, sentiment_results, batch_start, calls, fault,
                   full_data, summary_sentiment_map, summary_data, blend_log>>

\* The locals of extract_aspects_from_sentence.
extractor_vars == <<tagged_words, token_i, current_aspect_phrase, potential_aspects,
                    extracted, xpc>>

\* The arguments and locals of generate_dynamic_content_universal.
report_vars == <<aspect_name, negative_contexts, draws, rpc, doc,
                 problem_words_in_context, potential_subject_nouns, cat_idx, pat_idx,
                 identified_patterns, match_log, analysis_lines, primary_pattern_info,
                 dominant_category, secondary_patterns_added, recommendation_lines,
                 used_rec_templates, available_general_recs, added_rec_count, report>>

\* The session entries of the report page, what the pages show and hand out,
\* and the record of an earlier call of generate_dynamic_content_universal.
page_vars == <<earlier, chart_data, negative_analysis_data, shown, pdf>>

vars == <<pipeline_vars, extractor_vars, report_vars, page_vars>>

(***************************************************************************)
(* Bounds of the model.                                                    *)
(***************************************************************************)
\* Reviews per dataset.
MaxReviews == 2
\* Sentences of a dataset, all reviews together.
MaxSentences == 3
\* Presses of the "Process Data" button.
MaxRuns == 2
\* BATCH_SIZE is 256 in the source (2_Analysis.py:121); the batch loop is the
\* same for every size, and the model runs it with a size that the bounded
\* datasets exceed.
BATCH_SIZE == 2
\* The longest tokenised sentence given to extract_aspects_from_sentence.
MaxTokens == 5
\* The most negative contexts handed to generate_dynamic_content_universal.
MaxContexts == 3
\* The most entries of a list that random.choice reaches.
MaxDraws == 2
\* How often a call of generate_dynamic_content_universal is repeated.
MaxReruns == 1
\* The largest pool of contexts a repeated call is given.
MaxRepeated == 2

\* sentence[:512]
MAX_CHARS == 512

None == "None"

(***************************************************************************)
(* Exact rationals.                                                        *)
(***************************************************************************)
Rat(n, d) == [num |-> n, den |-> d]

RECURSIVE GCD(_, _)
GCD(a, b) == IF b = 0 THEN a ELSE GCD(b, a % b)

Abs(n) == IF n < 0 THEN -n ELSE n

\* The rational in lowest terms.
Norm(r) ==
    LET g == GCD(Abs(r.num), r.den)
    IN  Rat(r.num \div g, r.den \div g)

RAdd(a, b) == Norm(Rat(a.num * b.den + b.num * a.den, a.den * b.den))
RMul(a, b) == Norm(Rat(a.num * b.num, a.den * b.den))
RDivInt(a, n) == Norm(Rat(a.num, a.den * n))
RLt(a, b) == a.num * b.den < b.num * a.den
REq(a, b) == a.num * b.den = b.num * a.den
RLe(a, b) == ~RLt(b, a)

Min(a, b) == IF a < b THEN a ELSE b

(***************************************************************************)
(* Raw labels and map_sentiment.                                           *)
(***************************************************************************)
LABEL_0 == <<"L", "A", "B", "E", "L", "_", "0">>
LABEL_1 == <<"L", "A", "B", "E", "L", "_", "1">>
LABEL_2 == <<"L", "A", "B", "E", "L", "_", "2">>

\* str.upper() on the characters the model's labels are written with.
UpperChar(c) ==
    CASE c = "l" -> "L"
      [] c = "a" -> "A"
      [] c = "b" -> "B"
      [] c = "e" -> "E"
      [] c = "x" -> "X"
      [] c = "p" -> "P"
      [] c = "o" -> "O"
      [] c = "s" -> "S"
      [] OTHER -> c

upper(s) == [k \in 1..Len(s) |-> UpperChar(s[k])]

\* Python's  sub in s  on strings.
Contains(sub, s) ==
    \E k \in 0..(Len(s) - Len(sub)) : SubSeq(s, k + 1, k + Len(sub)) = sub

\* map_sentiment with == in place of in.
map_sentiment_exact(label) ==
    LET u == upper(label)
    IN  IF u = LABEL_0 THEN "Negative"
        ELSE IF u = LABEL_1 THEN "Neutral"
        ELSE IF u = LABEL_2 THEN "Positive"
        ELSE "Neutral"

map_sentiment(label) ==
    LET u == upper(label)
    IN  IF Contains(LABEL_0, u) THEN "Negative"
        ELSE IF Contains(LABEL_1, u) THEN "Neutral"
        ELSE IF Contains(LABEL_2, u) THEN "Positive"
        ELSE "Neutral"

sentiment_to_numerical(sentiment) ==
    CASE sentiment = "Positive" -> 1
      [] sentiment = "Neutral" -> 0
      [] sentiment = "Negative" -> -1
      [] OTHER -> 0

\* numerical_to_sentiment with >= and <= in place of > and <.
numerical_to_sentiment_inclusive(score) ==
    IF RLe(Rat(1, 10), score) THEN "Positive"
    ELSE IF RLe(score, Rat(-1, 10)) THEN "Negative"
    ELSE "Neutral"

numerical_to_sentiment(score) ==
    IF RLt(Rat(1, 10), score) THEN "Positive"
    ELSE IF RLt(score, Rat(-1, 10)) THEN "Negative"
    ELSE "Neutral"

(***************************************************************************)
(* Texts.                                                                  *)
(***************************************************************************)
Sentence(lab, conf, asp, len, pad) ==
    [lab |-> lab, conf |-> conf, asp |-> asp, len |-> len, pad |-> pad]

\* len(text)
Length(t) == t.len + t.pad

\* The sentence appended whole, without the slice.
Truncate_keep(t) == t

\* text[:512]
Truncate(t) ==
    IF t.len >= MAX_CHARS
    THEN [t EXCEPT !.len = MAX_CHARS, !.pad = 0]
    ELSE [t EXCEPT !.pad = Min(t.pad, MAX_CHARS - t.len)]

\* text.strip(): the model's texts carry no leading white space.
Strip(t) == [t EXCEPT !.pad = 0]

(***************************************************************************)
(* External services.                                                      *)
(***************************************************************************)
\* The except branch yielding no sentence at all.
Sentences_none(review) == review.sents

\* sent_tokenize(str(review)), with the except branch of lines 103-106:
\* a review cell is [fails, sents, str], what sent_tokenize does on it and
\* its string coercion.
Sentences(review) ==
    IF review.fails THEN <<review.str>> ELSE review.sents

\* sentiment_model(batch): one {label, score} per input, in input order.
sentiment_model(batch) ==
    [k \in 1..Len(batch) |-> [label |-> batch[k].lab, score |-> batch[k].conf]]

\* STOP_WORDS, lines 15-21: the words of nltk's English stop-word list that
\* the model's sentences are written with.
STOP_WORDS == {<<"i", "s">>, <<"o", "w", "n">>, <<"t", "h", "e">>}

\* extract_aspects_from_sentence(original_sentence, STOP_WORDS), as called
\* on line 164: the aspects found in the sentence.
Aspects(sentence) == sentence.asp

(***************************************************************************)
(* The external score.                                                     *)
(***************************************************************************)
PyNone == [kind |-> "None", nan |-> FALSE, val |-> Rat(0, 1)]
PyFloat(v) == [kind |-> "float", nan |-> FALSE, val |-> v]
PyNaN == [kind |-> "float", nan |-> TRUE, val |-> Rat(0, 1)]

\* Cells of the dataset: a number, a missing value (NaN), a string that
\* spells a number, a string that spells none.
NumCell(n, d) == [kind |-> "num", numeric |-> TRUE, val |-> Rat(n, d)]
StrCell(n, d) == [kind |-> "str", numeric |-> TRUE, val |-> Rat(n, d)]
TextCell == [kind |-> "str", numeric |-> FALSE, val |-> Rat(0, 1)]
NaNCell == [kind |-> "nan", numeric |-> FALSE, val |-> Rat(0, 1)]

\* float(cell): raises on a string that spells no number.
FloatRaises(cell) == cell.kind = "str" /\ ~cell.numeric
Float(cell) == IF cell.kind = "nan" THEN PyNaN ELSE PyFloat(cell.val)

\* df.loc[review_idx, nps_col]: the review column holds text.
Loc(review_idx, col) ==
    IF col = "NPS" THEN df[review_idx + 1].nps ELSE TextCell

\* Lines 187-197 with > 9 and < 6 in place of >= 9 and <= 6.
NpsOf_strict(review_idx) ==
    IF nps_col # None
    THEN LET cell == Loc(review_idx, nps_col)
         IN  IF FloatRaises(cell)
             THEN [nps_score |-> PyNone, nps_val |-> 0]
             ELSE LET f == Float(cell)
                  IN  [nps_score |-> f,
                       nps_val |-> IF ~f.nan /\ RLt(Rat(9, 1), f.val) THEN 1
                                   ELSE IF ~f.nan /\ RLt(f.val, Rat(6, 1)) THEN -1
                                   ELSE 0]
    ELSE [nps_score |-> PyNone, nps_val |-> 0]

\* Lines 187-197.  Comparisons with NaN are false.
NpsOf(review_idx) ==
    IF nps_col # None
    THEN LET cell == Loc(review_idx, nps_col)
         IN  IF FloatRaises(cell)
             THEN [nps_score |-> PyNone, nps_val |-> 0]
             ELSE LET f == Float(cell)
                  IN  [nps_score |-> f,
                       nps_val |-> IF ~f.nan /\ RLe(Rat(9, 1), f.val) THEN 1
                                   ELSE IF ~f.nan /\ RLe(f.val, Rat(6, 1)) THEN -1
                                   ELSE 0]
    ELSE [nps_score |-> PyNone, nps_val |-> 0]

(***************************************************************************)
(* Tables.                                                                 *)
(***************************************************************************)
\* st.session_state.* = None, and pd.DataFrame(rows)
NoTable == [is_none |-> TRUE, rows |-> <<>>]
DataFrame(rows) == [is_none |-> FALSE, rows |-> rows]

total_rows == Len(df)
total_sentences == Len(all_sentences)

(***************************************************************************)
(* Phase 1, lines 102-109: segmentation.                                   *)
(***************************************************************************)
RECURSIVE Phase1(_)
Phase1(n) ==
    IF n = 0
    THEN [all_sentences |-> <<>>, sentence_map |-> <<>>]
    ELSE LET prev == Phase1(n - 1)
             review == df[n].review
             sentences == Sentences(review)
         IN  [all_sentences |->
                  prev.all_sentences \o
                  [k \in 1..Len(sentences) |-> Truncate(sentences[k])],
              sentence_map |->
                  prev.sentence_map \o
                  [k \in 1..Len(sentences) |-> <<n - 1, review, Strip(sentences[k])>>]]

(***************************************************************************)
(* Phase 2, lines 123-125: the batch loop.                                 *)
(***************************************************************************)
\* The slice ending one element early.
Batch_short(start) ==
    SubSeq(all_sentences, start + 1, Min(start + BATCH_SIZE - 1, total_sentences))

\* all_sentences[i:i + BATCH_SIZE]
Batch(start) ==
    SubSeq(all_sentences, start + 1, Min(start + BATCH_SIZE, total_sentences))

\* range(0, total_sentences, BATCH_SIZE): the next value of i
NextStart(start) == start + BATCH_SIZE

\* What a call of the classifier gives back: its results on the batch, or,
\* when the service is short, its results without the last one.
Answer(batch, outcome) ==
    LET res == sentiment_model(batch)
    IN  IF outcome = "short" THEN SubSeq(res, 1, Len(res) - 1) ELSE res

(***************************************************************************)
(* Lines 155-181: the detail table and the observations per review.        *)
(***************************************************************************)
DetailRow(review_idx, review_text, asp, label, score, original_sentence) ==
    [Review_No |-> review_idx + 1,
     Review_Text |-> review_text,
     Aspect |-> asp,
     Aspect_Sentiment |-> label,
     Aspect_Sentiment_Score |-> score,
     Aspect_Context |-> original_sentence]

\* One observation per sentence, whatever its aspects.
Observations_once(aspects, label, score) ==
    <<[sentiment |-> label, score |-> score]>>

\* The observations one sentence appends to its review's list (lines 169-181).
Observations(aspects, label, score) ==
    IF aspects # <<>>
    THEN [a \in 1..Len(aspects) |-> [sentiment |-> label, score |-> score]]
    ELSE <<[sentiment |-> label, score |-> score]>>

\* A row for the first aspect only.
DetailRows_first(review_idx, review_text, aspects, label, score, original_sentence) ==
    IF aspects = <<>> THEN <<>>
    ELSE <<DetailRow(review_idx, review_text, aspects[1], label, score, original_sentence)>>

\* The rows one sentence appends to full_data (lines 169-178).
DetailRows(review_idx, review_text, aspects, label, score, original_sentence) ==
    [a \in 1..Len(aspects) |->
        DetailRow(review_idx, review_text, aspects[a], label, score, original_sentence)]

RECURSIVE BuildLoop(_, _, _)
BuildLoop(k, fd, ssm) ==
    IF k > Len(sentence_map)
    THEN [full_data |-> fd, summary_sentiment_map |-> ssm]
    ELSE IF k > Len(sentiment_results)
    THEN BuildLoop(k + 1, fd, ssm)
    ELSE LET review_idx == sentence_map[k][1]
             review_text == sentence_map[k][2]
             original_sentence == sentence_map[k][3]
             pred == sentiment_results[k]
             label == map_sentiment(pred.label)
             score == pred.score
             aspects == Aspects(original_sentence)
             old == IF review_idx \in DOMAIN ssm THEN ssm[review_idx] ELSE <<>>
             new == old \o Observations(aspects, label, score)
         IN  BuildLoop(k + 1,
                       fd \o DetailRows(review_idx, review_text, aspects,
                                        label, score, original_sentence),
                       [r \in DOMAIN ssm \cup {review_idx} |->
                           IF r = review_idx THEN new ELSE ssm[r]])

(***************************************************************************)
(* Lines 183-205: the summary table.                                       *)
(***************************************************************************)
RECURSIVE SumObs(_)
SumObs(sentiments) ==
    IF sentiments = <<>>
    THEN Rat(0, 1)
    ELSE RAdd(RMul(Rat(sentiment_to_numerical(Head(sentiments).sentiment), 1),
                   Head(sentiments).score),
              SumObs(Tail(sentiments)))

\* line 186
ModelScore(sentiments) ==
    IF sentiments # <<>>
    THEN RDivInt(SumObs(sentiments), Len(sentiments))
    ELSE Rat(0, 1)

\* The blend with its two weights exchanged.
Blend_swapped(model_score, nps_val) ==
    RAdd(RMul(Rat(4, 10), model_score), RMul(Rat(6, 10), Rat(nps_val, 1)))

\* line 198
Blend(model_score, nps_val) ==
    RAdd(RMul(Rat(6, 10), model_score), RMul(Rat(4, 10), Rat(nps_val, 1)))

\* summary_sentiment_map.get(review_idx, [])
Sentiments(review_idx) ==
    IF review_idx \in DOMAIN summary_sentiment_map
    THEN summary_sentiment_map[review_idx]
    ELSE <<>>

\* The locals of one iteration of the loop of lines 184-199.
Locals(review_idx) ==
    LET model_score == ModelScore(Sentiments(review_idx))
        nps == NpsOf(review_idx)
        blended_score == Blend(model_score, nps.nps_val)
    IN  [model_score |-> model_score,
         nps_score |-> nps.nps_score,
         nps_val |-> nps.nps_val,
         blended_score |-> blended_score,
         final_sentiment |-> numerical_to_sentiment(blended_score)]

\* The text always read from the first row.
TextRow_first(review_idx) == 1

\* The index of the row whose text a summary row carries, line 202.
TextRow(review_idx) == review_idx + 1

SummaryRow(review_idx) ==
    [Review_No |-> review_idx + 1,
     Review_Text |-> df[TextRow(review_idx)].review,
     NPS_Score |-> Locals(review_idx).nps_score,
     Final_Sentiment |-> Locals(review_idx).final_sentiment]

(***************************************************************************)
(* The "Process Data" handler, lines 217-221, step by step.                *)
(***************************************************************************)
\* The button is pressed; process_reviews runs phase 1 (lines 91-115).
Tokenize ==
    /\ pc = "idle"
    /\ run < MaxRuns
    /\ all_sentences' = Phase1(total_rows).all_sentences
    /\ sentence_map' = Phase1(total_rows).sentence_map
    /\ sentiment_results' = <<>>
    /\ batch_start' = 0
    /\ calls' = <<>>
    /\ fault' = "none"
    /\ full_data' = <<>>
    /\ summary_sentiment_map' = <<>>
    /\ summary_data' = <<>>
    /\ blend_log' = <<>>
    /\ pc' = IF Len(Phase1(total_rows).all_sentences) > 0 THEN "classify" ELSE "build"
    /\ UNCHANGED <<df, nps_col, faults, session_state, run>>
    /\ UNCHANGED <<extractor_vars, report_vars, page_vars>>

\* One iteration of the batch loop: the classifier is called on the next
\* batch and answers, answers short, or raises.
ClassifyBatch ==
    /\ pc = "classify"
    /\ \E outcome \in {"ok"} \cup faults :
        LET batch == Batch(batch_start)
        IN  /\ calls' = Append(calls, batch)
            /\ IF outcome = "raise"
               THEN /\ pc' = "error"
                    /\ fault' = "raise"
                    /\ UNCHANGED <<sentiment_results, batch_start>>
               ELSE /\ sentiment_results' = sentiment_results \o Answer(batch, outcome)
                    /\ batch_start' = NextStart(batch_start)
                    /\ fault' = IF outcome = "short" THEN "short" ELSE fault
                    /\ pc' = IF NextStart(batch_start) < total_sentences
                             THEN "classify" ELSE "build"
    /\ UNCHANGED <<df, nps_col, faults, session_state, run, all_sentences,
                   sentence_map, full_data, summary_sentiment_map, summary_data,
                   blend_log>>
    /\ UNCHANGED <<extractor_vars, report_vars, page_vars>>

\* Lines 155-181.
BuildTables ==
    /\ pc = "build"
    /\ full_data' = BuildLoop(1, <<>>, <<>>).full_data
    /\ summary_sentiment_map' = BuildLoop(1, <<>>, <<>>).summary_sentiment_map
    /\ pc' = "summary"
    /\ UNCHANGED <<df, nps_col, faults, session_state, run, all_sentences,
                   sentence_map, sentiment_results, batch_start, calls, fault,
                   summary_data, blend_log>>
    /\ UNCHANGED <<extractor_vars, report_vars, page_vars>>

\* Lines 183-205.
BuildSummary ==
    /\ pc = "summary"
    /\ summary_data' = [k \in 1..total_rows |-> SummaryRow(k - 1)]
    /\ blend_log' = [k \in 1..total_rows |-> Locals(k - 1)]
    /\ pc' = "return"
    /\ UNCHANGED <<df, nps_col, faults, session_state, run, all_sentences,
                   sentence_map, sentiment_results, batch_start, calls, fault,
                   full_data, summary_sentiment_map>>
    /\ UNCHANGED <<extractor_vars, report_vars, page_vars>>

\* Lines 207 and 219-221: process_reviews returns and the handler stores
\* both tables in the session.
StoreTables ==
    /\ pc = "return"
    /\ session_state' = [processed_data |-> DataFrame(full_data),
                         summary_data |-> DataFrame(summary_data)]
    /\ run' = run + 1
    /\ pc' = "idle"
    /\ UNCHANGED <<df, nps_col, faults, all_sentences, sentence_map,
                   sentiment_results, batch_start, calls, fault, full_data,
                   summary_sentiment_map, summary_data, blend_log>>
    /\ UNCHANGED <<extractor_vars, report_vars, page_vars>>

\* The exception of the classifier leaves process_reviews and the handler
\* (no try statement encloses lines 125 and 219): the script run ends, lines
\* 220-221 are not reached.
RunAborted ==
    /\ pc = "error"
    /\ run' = run + 1
    /\ pc' = "idle"
    /\ UNCHANGED <<df, nps_col, faults, session_state, all_sentences, sentence_map,
                   sentiment_results, batch_start, calls, fault, full_data,
                   summary_sentiment_map, summary_data, blend_log>>
    /\ UNCHANGED <<extractor_vars, report_vars, page_vars>>

Next ==
    \/ Tokenize
    \/ ClassifyBatch
    \/ BuildTables
    \/ BuildSummary
    \/ StoreTables
    \/ RunAborted

(***************************************************************************)
(* Datasets.                                                               *)
(***************************************************************************)
SeqsUpTo(S, n) == UNION {[1..m -> S] : m \in 0..n}

\* The string coercion of a review whose segmentation raises: classified
\* Negative, one aspect, 700 characters and 2 of trailing white space.
WholeText == Sentence(LABEL_0, Rat(9, 10), <<"Support">>, 700, 2)

ReviewsOver(sentences) ==
    {[fails |-> FALSE, sents |-> s, str |-> WholeText] :
        s \in SeqsUpTo(sentences, MaxSentences)}
    \cup {[fails |-> TRUE, sents |-> <<>>, str |-> WholeText]}

RowsOver(reviews, cells) == [review : reviews, nps : cells]

\* The rows with their NPS cells replaced.
WithCells(rows, cells) == [review : {r.review : r \in rows}, nps : cells]

\* The datasets of at most n rows and at most budget sentences.
RECURSIVE Datasets(_, _, _)
Datasets(rows, n, budget) ==
    IF n = 0
    THEN {<<>>}
    ELSE {<<>>} \cup
         UNION {{<<r>> \o d :
                    d \in Datasets(rows, n - 1, budget - Len(Sentences(r.review)))} :
                r \in {x \in rows : Len(Sentences(x.review)) <= budget}}

\* What the user uploads and selects: a dataset and the NPS column.  A
\* dataset read with no NPS column selected is drawn with its NPS cells
\* missing, since no line reads them.
Worlds(rows, n, cols) ==
    [df : Datasets(WithCells(rows, {NaNCell}), n, MaxSentences), nps_col : {None}]
    \cup [df : Datasets(rows, n, MaxSentences), nps_col : cols]

(***************************************************************************)
(* extract_aspects_from_sentence, lines 62-87, token by token.  A word is  *)
(* a sequence of one-character strings and a tag is one too, so that       *)
(* isalpha(), startswith(), join(), title(), split() and len() are         *)
(* computed.  The text is always a string at the call of line 164, so the  *)
(* guard of line 63 never returns.                                         *)
(***************************************************************************)
LowerLetters ==
    <<"a", "b", "c", "d", "e", "f", "g", "h", "i", "j", "k", "l", "m",
      "n", "o", "p", "q", "r", "s", "t", "u", "v", "w", "x", "y", "z">>
UpperLetters ==
    <<"A", "B", "C", "D", "E", "F", "G", "H", "I", "J", "K", "L", "M",
      "N", "O", "P", "Q", "R", "S", "T", "U", "V", "W", "X", "Y", "Z">>

IsLower(c) == \E k \in 1..26 : c = LowerLetters[k]
IsUpper(c) == \E k \in 1..26 : c = UpperLetters[k]
IsLetter(c) == IsLower(c) \/ IsUpper(c)
Capital(c) == IF IsLower(c) THEN UpperLetters[CHOOSE k \in 1..26 : c = LowerLetters[k]] ELSE c
Small(c) == IF IsUpper(c) THEN LowerLetters[CHOOSE k \in 1..26 : c = UpperLetters[k]] ELSE c

\* str.isalpha()
isalpha(word) == Len(word) > 0 /\ \A k \in 1..Len(word) : IsLetter(word[k])

\* tag.startswith(c)
startswith(tag, c) == Len(tag) >= 1 /\ tag[1] = c

\* " ".join(words)
RECURSIVE join(_)
join(words) ==
    IF words = <<>> THEN <<>>
    ELSE IF Len(words) = 1 THEN words[1]
    ELSE words[1] \o <<" ">> \o join(Tail(words))

\* str.title(): a letter that follows no letter is upper-cased, any other
\* letter is lower-cased.
title(s) ==
    [k \in 1..Len(s) |->
        IF k = 1 \/ ~IsLetter(s[k - 1]) THEN Capital(s[k]) ELSE Small(s[k])]

\* str.split(): the maximal runs of characters that are not white space.
RECURSIVE split(_)
split(s) ==
    IF s = <<>> THEN <<>>
    ELSE IF Head(s) = " " THEN split(Tail(s))
    ELSE LET stop == IF \E k \in 1..Len(s) : s[k] = " "
                     THEN (CHOOSE k \in 1..Len(s) :
                              s[k] = " " /\ \A j \in 1..(k - 1) : s[j] # " ")
                     ELSE Len(s) + 1
         IN  <<SubSeq(s, 1, stop - 1)>> \o split(SubSeq(s, stop, Len(s)))

\* The distinct items in first-seen order, each counted once.
RECURSIVE Counter_ones(_)
Counter_ones(items) ==
    IF items = <<>> THEN <<>>
    ELSE LET before == Counter_ones(SubSeq(items, 1, Len(items) - 1))
             last == items[Len(items)]
         IN  IF \E k \in 1..Len(before) : before[k].key = last
             THEN before
             ELSE Append(before, [key |-> last, n |-> 1])

\* Counter(items): the distinct items in first-seen order, each with its count.
RECURSIVE Counter(_)
Counter(items) ==
    IF items = <<>> THEN <<>>
    ELSE LET before == Counter(SubSeq(items, 1, Len(items) - 1))
             last == items[Len(items)]
         IN  IF \E k \in 1..Len(before) : before[k].key = last
             THEN [k \in 1..Len(before) |->
                      IF before[k].key = last
                      THEN [before[k] EXCEPT !.n = before[k].n + 1]
                      ELSE before[k]]
             ELSE Append(before, [key |-> last, n |-> 1])

\* A ranking by descending count in which an entry goes ahead of the
\* earlier entries of its count.
RECURSIVE most_common_unstable(_)
most_common_unstable(counter) ==
    IF counter = <<>> THEN <<>>
    ELSE LET before == most_common_unstable(SubSeq(counter, 1, Len(counter) - 1))
             last == counter[Len(counter)]
             ahead == Cardinality({k \in 1..Len(before) : before[k].n > last.n})
         IN  SubSeq(before, 1, ahead) \o <<last>> \o SubSeq(before, ahead + 1, Len(before))

\* sorted(..., key=count, reverse=True) and Counter.most_common(): the
\* entries by descending count; the sort is stable, so entries of equal
\* count keep their first-seen order.
RECURSIVE most_common(_)
most_common(counter) ==
    IF counter = <<>> THEN <<>>
    ELSE LET before == most_common(SubSeq(counter, 1, Len(counter) - 1))
             last == counter[Len(counter)]
             ahead == Cardinality({k \in 1..Len(before) : before[k].n >= last.n})
         IN  SubSeq(before, 1, ahead) \o <<last>> \o SubSeq(before, ahead + 1, Len(before))

\* Only the last word of the running phrase is appended.
Flush_last(phrase, candidates) ==
    IF phrase # <<>> THEN Append(candidates, title(phrase[Len(phrase)])) ELSE candidates

\* The running phrase is appended to the candidates, title-cased (lines
\* 74-76, 78-80 and 81-82).
Flush(phrase, candidates) ==
    IF phrase # <<>> THEN Append(candidates, title(join(phrase))) ELSE candidates

\* Line 84: the filter.
Kept(a) == Len(split(a)) > 1 \/ Len(a) > 2

\* The ranking returned whole.
Top_all(ranked) == ranked

\* Line 86: [:2]
Top(ranked) == SubSeq(ranked, 1, Min(2, Len(ranked)))

\* Lines 84-87.
Ranked(candidates) ==
    LET filtered == SelectSeq(candidates, Kept)
        ranked == most_common(Counter(filtered))
    IN  Top([k \in 1..Len(ranked) |-> ranked[k].key])

\* Lines 69-80: the loop body on the next token.
ScanToken ==
    /\ xpc = "scan"
    /\ token_i < Len(tagged_words)
    /\ LET word == tagged_words[token_i + 1].word
           tag == tagged_words[token_i + 1].tag
       IN  IF (startswith(tag, "N") \/ startswith(tag, "J"))
              /\ isalpha(word) /\ word \notin STOP_WORDS
           THEN /\ current_aspect_phrase' = Append(current_aspect_phrase, word)
                /\ UNCHANGED potential_aspects
           ELSE /\ potential_aspects' = Flush(current_aspect_phrase, potential_aspects)
                /\ current_aspect_phrase' = <<>>
    /\ token_i' = token_i + 1
    /\ UNCHANGED <<tagged_words, extracted, xpc>>
    /\ UNCHANGED <<pipeline_vars, report_vars, page_vars>>

\* Lines 81-87: the loop is over, the trailing phrase is flushed, the
\* candidates are filtered and ranked, and at most two are returned.
ReturnAspects ==
    /\ xpc = "scan"
    /\ token_i = Len(tagged_words)
    /\ potential_aspects' = Flush(current_aspect_phrase, potential_aspects)
    /\ extracted' = Ranked(Flush(current_aspect_phrase, potential_aspects))
    /\ xpc' = "returned"
    /\ UNCHANGED <<tagged_words, token_i, current_aspect_phrase>>
    /\ UNCHANGED <<pipeline_vars, report_vars, page_vars>>

NextExtractor ==
    \/ ScanToken
    \/ ReturnAspects

\* No call is followed.
ExtractorIdle ==
    /\ tagged_words = <<>>
    /\ token_i = 0
    /\ current_aspect_phrase = <<>>
    /\ potential_aspects = <<>>
    /\ extracted = <<>>
    /\ xpc = "off"

(***************************************************************************)
(* The report page (Pages/3_Report.py): generate_dynamic_content_universal *)
(* on one aspect and its negative contexts.                                *)
(*                                                                         *)
(* Representation.                                                         *)
(*  - A context is the sequence of tokens the spaCy pipeline yields on its *)
(*    lower-cased text; a token is [text, lemma, pos, dep, head], head     *)
(*    being the position of its syntactic head (its own for a root).       *)
(*  - A template is its text with what the code reads off it: its leading  *)
(*    ordinal (0 if none), the replacement fields it uses, and whether its *)
(*    fixed text has the word "general".  A rendered line is the           *)
(*    template's text with the values of the fields it uses.               *)
(*  - random.choice draws one of the first `draws` entries of its list.    *)
(***************************************************************************)
\* No constraint on a token attribute of a pattern element.
ANY == {"*"}

\* One dictionary of a spaCy pattern: the allowed values of the token
\* attributes (the keys in capitals of the source) and the operator ("1"
\* for none).
Elem(lemma, lower, pos, dep, op) ==
    [lemma |-> lemma, lower |-> lower, pos |-> pos, dep |-> dep, op |-> op]

\* A template string.
Template(text, ordinal, uses, general) ==
    [text |-> text, ordinal |-> ordinal, uses |-> uses, general |-> general]

\* Lines 26-33.
NEGATIVE_ADJECTIVES ==
    <<"slow", "lagging", "unresponsive", "expensive", "overpriced",
     "confusing", "unhelpful", "rude", "bland", "cold", "difficult",
     "complicated", "unstable", "poor", "high", "limited", "small",
     "unreliable", "buggy", "bad", "long", "frustrating", "broken",
     "missing", "inaccurate", "unprofessional", "not good",
     "not efficient", "not working", "too slow", "too expensive",
     "insufficient", "crashes", "freezes", "unintuitive", "unclear",
     "unhappy", "difficult", "unpleasant", "unfavorable">>

\* Lines 35-45.
UNIVERSAL_PROBLEMS ==
    <<"bug", "error", "crash", "glitch", "issue", "problem", "fee",
     "price", "delay", "size", "variety", "cost", "speed", "instability",
     "wait", "interface", "navigation", "design", "staff", "support",
     "team", "food", "product", "feature", "selection", "portions",
     "instructions", "documentation", "layout", "service", "response_time",
     "system", "app", "software", "processes", "infrastructure",
     "codebase", "server", "features", "value", "tiers", "workflow",
     "onboarding", "training", "protocols", "time", "quality", "internet",
     "network", "data", "storage", "resources", "updates", "communication",
     "transparency", "performance", "usability", "clarity", "reliability",
     "maintenance", "billing", "security", "experience", "content", "tool",
     "environment", "resources", "management">>

\* Lines 47-55.
ACTION_VERBS ==
    <<"investigate", "optimize", "improve", "review", "refine",
     "streamline", "update", "train", "standardize", "enhance", "address",
     "resolve", "evaluate", "reassess", "develop", "implement", "monitor",
     "adjust", "simplify", "clarify", "redesign", "ensure", "expand",
     "prioritize", "fix", "resolve", "reduce", "diversify", "audit",
     "restructure", "allocate", "reengineer", "communicate", "upgrade",
     "provide", "strengthen", "strategize", "debug", "test", "rework",
     "educate", "analyse", "assess", "innovate", "strategize", "cultivate">>

\* Lines 57-182: the categories in the order of the dictionary; a pattern is
\* its elements, a theme its key and template, a recommendation phrase its
\* key (None for the general ones), template and random actions.
PROBLEM_CATEGORIES ==
    <<
    [name |-> "performance_efficiency",
     spacy_patterns |-> <<
         <<Elem({"slow", "lag", "unresponsive", "poor", "bad"}, ANY, ANY, ANY, "1"),
           Elem(ANY, {"due", "because"}, ANY, ANY, "1"),
           Elem(ANY, {"to", "of"}, ANY, ANY, "1"),
           Elem(ANY, ANY, {"NOUN", "PROPN", "ADJ"}, {"pobj", "attr", "amod", "nsubj"}, "+")>>,
         <<Elem({"bug", "error", "crash", "glitch", "issue"}, ANY, ANY, ANY, "1"),
           Elem({"cause", "lead"}, ANY, ANY, ANY, "1"),
           Elem(ANY, {"to"}, ANY, ANY, "?"),
           Elem(ANY, ANY, {"NOUN", "PROPN", "ADJ"}, {"dobj", "attr", "nsubj"}, "+")>>,
         <<Elem({"unresponsive", "unstable", "bad", "poor", "slow"}, ANY, ANY, ANY, "1"),
           Elem(ANY, ANY, {"NOUN", "PROPN"}, {"attr", "dobj", "nsubj", "pobj"}, "1")>>,
         <<Elem({"performance"}, ANY, ANY, ANY, "1"),
           Elem(ANY, ANY, ANY, {"amod"}, "?"),
           Elem({"slow", "bad", "poor", "unreliable", "lagging", "unresponsive"}, ANY, ANY, ANY, "1")>>>>,
     analysis_themes |-> <<
         [key |-> "performance_cause", template |->
             Template("Users consistently report **{aspect_name}** performance being **{problem_adj}**, often attributed to underlying **{cause_or_effect_noun}**.",
                 0, {"aspect_name", "cause_or_effect_noun", "problem_adj"}, FALSE)],
         [key |-> "problem_effect", template |->
             Template("A prevalent concern is the **{problem_noun}** in **{aspect_name}** leading to **{cause_or_effect_noun}**, significantly impacting user experience.",
                 0, {"aspect_name", "cause_or_effect_noun", "problem_noun"}, FALSE)],
         [key |-> "simple_adj_noun", template |->
             Template("Feedback points to **{aspect_name}** suffering from a **{problem_adj} {problem_noun}**.",
                 0, {"aspect_name", "problem_adj", "problem_noun"}, FALSE)],
         [key |-> "simple_noun_adj", template |->
             Template("The **{aspect_name}**'s **{problem_noun}** is frequently described as **{problem_adj}**, affecting overall **{aspect_name}** efficiency.",
                 0, {"aspect_name", "problem_adj", "problem_noun"}, FALSE)],
         [key |-> "general", template |->
             Template("Users highlight general performance issues with **{aspect_name}**, describing it as **{problem_adj}**.",
                 0, {"aspect_name", "problem_adj"}, TRUE)]>>,
     recommendation_phrases |-> <<
         [key |-> "performance_cause", template |->
             Template("1. **{fix_verb}** the **{cause_or_effect_noun}** identified as the root cause for **{aspect_name}**'s **{problem_adj}** performance.",
                 1, {"aspect_name", "cause_or_effect_noun", "fix_verb", "problem_adj"}, FALSE),
          random_actions |-> <<"optimizing code", "upgrading infrastructure", "improving network stability">>],
         [key |-> "problem_effect", template |->
             Template("1. Implement immediate **{fix_verb}** for the **{problem_noun}** in **{aspect_name}** to prevent it from **{cause_or_effect_verb} {cause_or_effect_noun}**.",
                 1, {"aspect_name", "cause_or_effect_noun", "cause_or_effect_verb", "fix_verb", "problem_noun"}, FALSE),
          random_actions |-> <<"debugging crashes", "stabilizing glitches", "fixing errors">>],
         [key |-> "simple_adj_noun", template |->
             Template("1. Prioritize **{fix_verb}** the **{problem_noun}** of **{aspect_name}** to enhance its **{problem_adj}** aspects and boost overall **{aspect_name}** reliability.",
                 1, {"aspect_name", "fix_verb", "problem_adj", "problem_noun"}, FALSE),
          random_actions |-> <<"improving response times", "streamlining processes", "enhancing stability">>],
         [key |-> "simple_noun_adj", template |->
             Template("1. Conduct a deep dive to **{fix_verb}** the underlying causes behind **{aspect_name}**'s **{problem_adj} {problem_noun}**.",
                 1, {"aspect_name", "fix_verb", "problem_adj", "problem_noun"}, FALSE),
          random_actions |-> <<"investigate bottlenecks", "address resource consumption", "resolve system conflicts">>],
         [key |-> None, template |->
             Template("2. **{fix_verb}** overall **{area_of_focus}** for **{aspect_name}** through continuous monitoring, load testing, and iterative improvements.",
                 2, {"area_of_focus", "aspect_name", "fix_verb"}, FALSE),
          random_actions |-> <<"enhance", "ensure", "monitor">>],
         [key |-> None, template |->
             Template("3. **{fix_verb}** resource allocation for **{aspect_name}**'s development and testing to prevent future performance bottlenecks.",
                 3, {"aspect_name", "fix_verb"}, FALSE),
          random_actions |-> <<"allocate more", "increase funding", "review current">>],
         [key |-> None, template |->
             Template("4. **{fix_verb}** a clear communication strategy regarding performance improvements and system stability for users.",
                 4, {"fix_verb"}, FALSE),
          random_actions |-> <<"establish", "maintain", "promote">>]>>],
    [name |-> "cost_value",
     spacy_patterns |-> <<
         <<Elem({"price", "cost", "fee"}, ANY, ANY, ANY, "1"),
           Elem(ANY, {"is", "are", "seems"}, ANY, ANY, "1"),
           Elem(ANY, {"too", "very", "quite"}, ANY, ANY, "?"),
           Elem({"high", "expensive", "overpriced"}, ANY, ANY, ANY, "1")>>,
         <<Elem({"expensive", "high"}, ANY, ANY, ANY, "1"),
           Elem(ANY, {"for", "relative"}, ANY, ANY, "1"),
           Elem(ANY, {"to"}, ANY, ANY, "?"),
           Elem(ANY, ANY, {"DET"}, ANY, "?"),
           Elem(ANY, ANY, {"NOUN", "PROPN", "ADJ"}, ANY, "+")>>,
         <<Elem(ANY, {"lack", "poor", "no"}, ANY, ANY, "1"),
           Elem(ANY, {"of"}, ANY, ANY, "1"),
           Elem({"value"}, ANY, ANY, ANY, "1"),
           Elem(ANY, {"for", "given"}, ANY, ANY, "1"),
           Elem(ANY, ANY, {"DET"}, ANY, "?"),
           Elem({"price", "cost", "fee"}, ANY, ANY, ANY, "1")>>>>,
     analysis_themes |-> <<
         [key |-> "simple_noun_adj", template |->
             Template("The **{aspect_name}** is frequently criticized for its **{problem_noun}** being **{problem_adj}**, leading to user dissatisfaction.",
                 0, {"aspect_name", "problem_adj", "problem_noun"}, FALSE)],
         [key |-> "cost_value_comparison", template |->
             Template("Many users find the **{problem_noun}** associated with **{aspect_name}** to be **{problem_adj}**, especially when considering the **{cause_or_effect_noun}** provided.",
                 0, {"aspect_name", "cause_or_effect_noun", "problem_adj", "problem_noun"}, FALSE)],
         [key |-> "lack_of_value", template |->
             Template("Feedback highlights a **{problem_adj}** perception of **{aspect_name}** due to a **{problem_noun}** relative to the **{cause_or_effect_noun}**.",
                 0, {"aspect_name", "cause_or_effect_noun", "problem_adj", "problem_noun"}, FALSE)],
         [key |-> "general", template |->
             Template("Users perceive **{aspect_name}** as **{problem_adj}**, indicating overall cost concerns and a potential mismatch with expectations.",
                 0, {"aspect_name", "problem_adj"}, FALSE)]>>,
     recommendation_phrases |-> <<
         [key |-> "cost_value_comparison", template |->
             Template("1. **{fix_verb}** the **{problem_noun}** of **{aspect_name}** by **{random_action_1}** to better align with the perceived **{cause_or_effect_noun}**.",
                 1, {"aspect_name", "cause_or_effect_noun", "fix_verb", "problem_noun", "random_action_1"}, FALSE),
          random_actions |-> <<"adjusting pricing tiers", "bundling more features", "revising subscription models">>],
         [key |-> "lack_of_value", template |->
             Template("1. **{fix_verb}** the **{area_of_focus}** of **{aspect_name}** to justify its **{problem_noun}**, focusing on **{cause_or_effect_noun}** as a key differentiator.",
                 1, {"area_of_focus", "aspect_name", "cause_or_effect_noun", "fix_verb", "problem_noun"}, FALSE),
          random_actions |-> <<"enhancing premium features", "improving service inclusions", "clarifying benefits">>],
         [key |-> "simple_noun_adj", template |->
             Template("1. **{fix_verb}** the **{problem_noun}** structure of **{aspect_name}** to address user concerns about its **{problem_adj}** nature.",
                 1, {"aspect_name", "fix_verb", "problem_adj", "problem_noun"}, FALSE),
          random_actions |-> <<"revising the pricing model", "offering more flexible plans", "introducing tiered options">>],
         [key |-> None, template |->
             Template("2. **{fix_verb}** a comprehensive competitive analysis of **{aspect_name}**'s pricing to ensure market alignment and perceived fairness.",
                 2, {"aspect_name", "fix_verb"}, FALSE),
          random_actions |-> <<"conduct", "perform", "review">>],
         [key |-> None, template |->
             Template("3. **{fix_verb}** the communication around **{aspect_name}**'s value proposition to clearly articulate benefits against its cost.",
                 3, {"aspect_name", "fix_verb"}, FALSE),
          random_actions |-> <<"clarify", "strengthen", "refine">>],
         [key |-> None, template |->
             Template("4. **{fix_verb}** loyalty programs or discounts to enhance long-term **{area_of_focus}** for existing users and attract new ones.",
                 4, {"area_of_focus", "fix_verb"}, FALSE),
          random_actions |-> <<"introduce", "expand", "evaluate">>]>>],
    [name |-> "usability_complexity",
     spacy_patterns |-> <<
         <<Elem({"interface", "navigation", "design", "workflow", "system"}, ANY, ANY, ANY, "1"),
           Elem({"be", "seem"}, ANY, ANY, ANY, "?"),
           Elem(ANY, {"too", "very", "quite"}, ANY, ANY, "?"),
           Elem({"confusing", "difficult", "complicated", "unclear", "clunky", "hard", "unintuitive", "frustrating"}, ANY, ANY, ANY, "1")>>,
         <<Elem(ANY, {"hard"}, ANY, ANY, "1"),
           Elem(ANY, {"to"}, ANY, ANY, "1"),
           Elem({"use", "understand", "navigate"}, ANY, ANY, ANY, "1"),
           Elem(ANY, {"due", "because"}, ANY, ANY, "1"),
           Elem(ANY, {"to", "of"}, ANY, ANY, "1"),
           Elem(ANY, ANY, {"DET"}, ANY, "?"),
           Elem(ANY, ANY, {"NOUN", "PROPN", "ADJ"}, ANY, "+")>>,
         <<Elem({"unclear", "confusing", "complex"}, ANY, ANY, ANY, "1"),
           Elem(ANY, ANY, {"NOUN", "PROPN"}, {"compound", "amod", "nsubj"}, "1")>>>>,
     analysis_themes |-> <<
         [key |-> "simple_noun_adj", template |->
             Template("The **{problem_noun}** within **{aspect_name}** is often described as **{problem_adj}**, causing frustration for users.",
                 0, {"aspect_name", "problem_adj", "problem_noun"}, FALSE)],
         [key |-> "usability_cause", template |->
             Template("Users report a **{problem_adj}** experience when interacting with **{aspect_name}**, primarily due to the **{cause_or_effect_noun}**.",
                 0, {"aspect_name", "cause_or_effect_noun", "problem_adj"}, FALSE)],
         [key |-> "simple_adj_noun", template |->
             Template("Feedback highlights **{aspect_name}** having **{problem_adj} {problem_noun}**, making it challenging to use.",
                 0, {"aspect_name", "problem_adj", "problem_noun"}, FALSE)],
         [key |-> "general", template |->
             Template("Many users find **{aspect_name}** to be **{problem_adj}**, hindering their overall experience and adoption.",
                 0, {"aspect_name", "problem_adj"}, FALSE)]>>,
     recommendation_phrases |-> <<
         [key |-> "usability_cause", template |->
             Template("1. **{fix_verb}** the **{problem_noun}** of **{aspect_name}** by simplifying the **{cause_or_effect_noun}** to improve **{area_of_focus}**.",
                 1, {"area_of_focus", "aspect_name", "cause_or_effect_noun", "fix_verb", "problem_noun"}, FALSE),
          random_actions |-> <<"redesigning workflows", "streamlining navigation", "clarifying instructions">>],
         [key |-> "simple_noun_adj", template |->
             Template("1. **{fix_verb}** the **{problem_noun}** design of **{aspect_name}** to make it less **{problem_adj}** and more intuitive.",
                 1, {"aspect_name", "fix_verb", "problem_adj", "problem_noun"}, FALSE),
          random_actions |-> <<"simplify the interface", "refine the layout", "re-engineer the user flow">>],
         [key |-> "simple_adj_noun", template |->
             Template("1. **{fix_verb}** clarity in **{aspect_name}**'s **{problem_noun}** to reduce user frustration caused by its **{problem_adj}** nature.",
                 1, {"aspect_name", "fix_verb", "problem_adj", "problem_noun"}, FALSE),
          random_actions |-> <<"enhance user guides", "ensure clear labels", "improve error messages">>],
         [key |-> None, template |->
             Template("2. **{fix_verb}** user testing and feedback loops to continuously improve the **{area_of_focus}** of **{aspect_name}**.",
                 2, {"area_of_focus", "aspect_name", "fix_verb"}, FALSE),
          random_actions |-> <<"implement A/B testing", "strengthen usability studies", "expand beta programs">>],
         [key |-> None, template |->
             Template("3. **{fix_verb}** comprehensive onboarding and in-app guidance to help users navigate **{aspect_name}** effectively.",
                 3, {"aspect_name", "fix_verb"}, FALSE),
          random_actions |-> <<"develop interactive tutorials", "provide contextual help", "update documentation">>],
         [key |-> None, template |->
             Template("4. **{fix_verb}** consistent design principles across **{aspect_name}** to reduce complexity and enhance user familiarity.",
                 4, {"aspect_name", "fix_verb"}, FALSE),
          random_actions |-> <<"establish UX guidelines", "maintain design consistency", "enforce UI standards">>]>>],
    [name |-> "service_quality",
     spacy_patterns |-> <<
         <<Elem({"staff", "support", "team", "service", "agents", "representatives"}, ANY, ANY, ANY, "1"),
           Elem({"be", "seem"}, ANY, ANY, ANY, "?"),
           Elem(ANY, {"too", "very", "quite"}, ANY, ANY, "?"),
           Elem({"unhelpful", "rude", "unresponsive", "slow", "unprofessional", "bad"}, ANY, ANY, ANY, "1")>>,
         <<Elem({"long", "slow"}, ANY, ANY, ANY, "1"),
           Elem({"wait", "response", "time", "delays"}, ANY, ANY, ANY, "1")>>,
         <<Elem(ANY, {"poor"}, ANY, ANY, "1"),
           Elem({"service", "support"}, ANY, ANY, ANY, "1"),
           Elem(ANY, {"from", "by"}, ANY, ANY, "1"),
           Elem(ANY, ANY, {"DET"}, ANY, "?"),
           Elem(ANY, ANY, {"NOUN", "PROPN", "ADJ"}, ANY, "+")>>,
         <<Elem({"customer"}, ANY, ANY, ANY, "1"),
           Elem({"service"}, ANY, ANY, ANY, "1"),
           Elem({"be", "seem"}, ANY, ANY, ANY, "?"),
           Elem({"unresponsive", "slow", "bad"}, ANY, ANY, ANY, "1")>>>>,
     analysis_themes |-> <<
         [key |-> "simple_noun_adj", template |->
             Template("Concerns are consistently raised about the **{problem_noun}** of **{aspect_name}** being **{problem_adj}**.",
                 0, {"aspect_name", "problem_adj", "problem_noun"}, FALSE)],
         [key |-> "simple_adj_noun", template |->
             Template("Users frequently highlight **{aspect_name}**'s **{problem_adj} {problem_noun}** as a major issue, impacting their satisfaction.",
                 0, {"aspect_name", "problem_adj", "problem_noun"}, FALSE)],
         [key |-> "service_cause", template |->
             Template("Users frequently report **{problem_adj}** interactions with **{aspect_name}**, often stemming from **{cause_or_effect_noun}**.",
                 0, {"aspect_name", "cause_or_effect_noun", "problem_adj"}, FALSE)],
         [key |-> "general", template |->
             Template("Feedback indicates **{aspect_name}** provides **{problem_adj}** service overall, suggesting systemic issues.",
                 0, {"aspect_name", "problem_adj"}, FALSE)]>>,
     recommendation_phrases |-> <<
         [key |-> "service_cause", template |->
             Template("1. **{fix_verb}** **{aspect_name}**'s **{problem_noun}** by **{random_action_1}** to address the identified **{cause_or_effect_noun}**.",
                 1, {"aspect_name", "cause_or_effect_noun", "fix_verb", "problem_noun", "random_action_1"}, FALSE),
          random_actions |-> <<"enhancing staff training", "increasing team size", "improving communication tools">>],
         [key |-> "simple_noun_adj", template |->
             Template("1. **{fix_verb}** the **{problem_noun}** interactions to improve **{aspect_name}**'s overall **{problem_adj}** service quality.",
                 1, {"aspect_name", "fix_verb", "problem_adj", "problem_noun"}, FALSE),
          random_actions |-> <<"standardize protocols", "provide ongoing training", "implement quality control checks">>],
         [key |-> "simple_adj_noun", template |->
             Template("1. **{fix_verb}** the **{problem_adj} {problem_noun}** in **{aspect_name}** by **{random_action_1}** to boost user satisfaction.",
                 1, {"aspect_name", "fix_verb", "problem_adj", "problem_noun", "random_action_1"}, FALSE),
          random_actions |-> <<"optimizing response times", "improving communication channels", "streamlining support workflows">>],
         [key |-> None, template |->
             Template("2. **{fix_verb}** a robust feedback system for **{aspect_name}**'s customer interactions to ensure continuous **{area_of_focus}**.",
                 2, {"area_of_focus", "aspect_name", "fix_verb"}, FALSE),
          random_actions |-> <<"implement", "strengthen", "establish">>],
         [key |-> None, template |->
             Template("3. **{fix_verb}** the empowerment of **{aspect_name}** staff to resolve issues efficiently and professionally, reducing the need for escalations.",
                 3, {"aspect_name", "fix_verb"}, FALSE),
          random_actions |-> <<"enhance", "promote", "support">>],
         [key |-> None, template |->
             Template("4. **{fix_verb}** communication with users about expected **{area_of_focus}** and any service improvements.",
                 4, {"area_of_focus", "fix_verb"}, FALSE),
          random_actions |-> <<"transparent", "clear", "proactive">>]>>],
    [name |-> "product_content_quality",
     spacy_patterns |-> <<
         <<Elem({"food", "product", "feature", "content", "information", "selection"}, ANY, ANY, ANY, "1"),
           Elem({"be", "seem"}, ANY, ANY, ANY, "?"),
           Elem(ANY, {"too", "very", "quite"}, ANY, ANY, "?"),
           Elem({"bland", "cold", "poor", "buggy", "broken", "missing", "inaccurate", "bad", "unreliable", "insufficient"}, ANY, ANY, ANY, "1")>>,
         <<Elem({"limited", "small", "lack"}, ANY, ANY, ANY, "1"),
           Elem({"selection", "portion", "feature", "content", "option", "variety", "features"}, ANY, ANY, ANY, "1")>>,
         <<Elem(ANY, {"lack"}, ANY, ANY, "1"),
           Elem(ANY, {"of"}, ANY, ANY, "1"),
           Elem({"variety"}, ANY, ANY, ANY, "1"),
           Elem(ANY, {"in", "for"}, ANY, ANY, "1"),
           Elem(ANY, ANY, {"DET"}, ANY, "?"),
           Elem(ANY, ANY, {"NOUN", "PROPN"}, ANY, "+")>>>>,
     analysis_themes |-> <<
         [key |-> "simple_noun_adj", template |->
             Template("Disappointment is frequently expressed regarding the **{problem_noun}** of **{aspect_name}** as it's often described as **{problem_adj}**, impacting user satisfaction.",
                 0, {"aspect_name", "problem_adj", "problem_noun"}, FALSE)],
         [key |-> "simple_adj_noun", template |->
             Template("The overall quality of **{aspect_name}** is frequently criticized for its **{problem_adj} {problem_noun}**.",
                 0, {"aspect_name", "problem_adj", "problem_noun"}, FALSE)],
         [key |-> "lack_of_variety", template |->
             Template("Users are dissatisfied with **{aspect_name}**'s offerings, citing a lack of variety in **{cause_or_effect_noun}**.",
                 0, {"aspect_name", "cause_or_effect_noun"}, FALSE)],
         [key |-> "general", template |->
             Template("Feedback consistently rates **{aspect_name}** as **{problem_adj}**, indicating a fundamental quality issue that needs addressing.",
                 0, {"aspect_name", "problem_adj"}, FALSE)]>>,
     recommendation_phrases |-> <<
         [key |-> "lack_of_variety", template |->
             Template("1. **{fix_verb}** the **{area_of_focus}** of **{aspect_name}** by **{random_action_1}** to address the perceived **{problem_adj}** selection.",
                 1, {"area_of_focus", "aspect_name", "fix_verb", "problem_adj", "random_action_1"}, FALSE),
          random_actions |-> <<"expanding offerings", "diversifying content sources", "introducing new features">>],
         [key |-> "simple_noun_adj", template |->
             Template("1. **{fix_verb}** the **{problem_noun}** quality of **{aspect_name}** to resolve its **{problem_adj}** characteristics.",
                 1, {"aspect_name", "fix_verb", "problem_adj", "problem_noun"}, FALSE),
          random_actions |-> <<"implementing stricter QA", "refining content creation processes", "improving manufacturing standards">>],
         [key |-> "simple_adj_noun", template |->
             Template("1. **{fix_verb}** the **{problem_adj} {problem_noun}** in **{aspect_name}** by **{random_action_1}** to meet user expectations.",
                 1, {"aspect_name", "fix_verb", "problem_adj", "problem_noun", "random_action_1"}, FALSE),
          random_actions |-> <<"ensuring consistency", "improving accuracy", "fixing defects">>],
         [key |-> None, template |->
             Template("2. **{fix_verb}** continuous quality assurance processes for **{aspect_name}** to maintain high standards and address bugs promptly.",
                 2, {"aspect_name", "fix_verb"}, FALSE),
          random_actions |-> <<"establish", "strengthen", "audit">>],
         [key |-> None, template |->
             Template("3. **{fix_verb}** user feedback on **{aspect_name}**'s **{area_of_focus}** to guide future product enhancements and content development.",
                 3, {"area_of_focus", "aspect_name", "fix_verb"}, FALSE),
          random_actions |-> <<"collect", "analyze", "integrate">>],
         [key |-> None, template |->
             Template("4. **{fix_verb}** updates on new features or content additions to keep users informed and engaged with **{aspect_name}**.",
                 4, {"aspect_name", "fix_verb"}, FALSE),
          random_actions |-> <<"regularly communicate", "proactively announce", "showcase">>]>>]>>

\* PROBLEM_CATEGORIES[category_name]
Category(category_name) ==
    PROBLEM_CATEGORIES[CHOOSE k \in 1..Len(PROBLEM_CATEGORIES) :
                           PROBLEM_CATEGORIES[k].name = category_name]

\* word in words, on a list.
In(word, words) == \E k \in 1..Len(words) : words[k] = word

\* A token of a parsed text.
Token(text, lemma, pos, dep, head) ==
    [text |-> text, lemma |-> lemma, pos |-> pos, dep |-> dep, head |-> head]

\* token.is_stop and token.is_punct on the tokens of the model's contexts.
is_stop(token) ==
    token.text \in {"the", "is", "was", "too", "very", "it", "'s", "a", "for", "and",
                    "due", "to", "because", "of", "in", "from"}
is_punct(token) == token.text \in {",", "."}

\* nlp(word)[0].pos_ == "NOUN" on the lemmas of the model's contexts.
IsNounAlone(word) ==
    word \in {"subscription", "cost", "fee", "price", "plan", "staff", "support",
              "server", "interface", "food", "way", "bug", "lag", "crash", "layout",
              "lack", "value", "variety", "menu", "option", "service", "agent"}

\* s.title() of a value, kept symbolic.
Titled(s) == "title(" \o s \o ")"

\* Lines 192-195: doc = nlp(" ".join(negative_contexts).lower()); the heads
\* of a context are positions in the context.
RECURSIVE nlp(_)
nlp(contexts) ==
    IF contexts = <<>> THEN <<>>
    ELSE LET front == nlp(SubSeq(contexts, 1, Len(contexts) - 1))
             last == contexts[Len(contexts)]
         IN  front \o [k \in 1..Len(last) |->
                          [last[k] EXCEPT !.head = last[k].head + Len(front)]]

\* aspect_name.replace('_', ' ').title(), line 191.  Line 699 lower-cases
\* the aspects and they are words joined by spaces (2_Analysis.py line 75):
\* aspect_name.lower().replace('_', ' ') is aspect_name itself.
aspect_display_name == Titled(aspect_name)

\* The keys of a counter, in its order.
Keys(counter) == [k \in 1..Len(counter) |-> counter[k].key]

\* Line 198: word_counts of a parsed text.
word_counts(parsed) ==
    LET counted == SelectSeq(parsed, LAMBDA t :
                       ~is_stop(t) /\ ~is_punct(t) /\ t.lemma # aspect_name)
    IN  Counter([k \in 1..Len(counted) |-> counted[k].lemma])

\* The problem words among the counted words, in first-seen order.
ProblemWords_unsorted(counts) ==
    Keys(SelectSeq(counts, LAMBDA e :
        In(e.key, NEGATIVE_ADJECTIVES) \/ In(e.key, UNIVERSAL_PROBLEMS)))

\* Lines 200-204: the problem words among the counted words, by count.
ProblemWords(counts) ==
    Keys(most_common(SelectSeq(counts, LAMBDA e :
        In(e.key, NEGATIVE_ADJECTIVES) \/ In(e.key, UNIVERSAL_PROBLEMS))))

\* Lines 206-211: the subject nouns among the counted words, by count; no
\* lemma of the model's contexts is numeric.
SubjectNouns(counts) ==
    Keys(most_common(SelectSeq(counts, LAMBDA e :
        /\ ~In(e.key, NEGATIVE_ADJECTIVES) /\ ~In(e.key, UNIVERSAL_PROBLEMS)
        /\ Len(e.key) > 2 /\ IsNounAlone(e.key))))

\* A token satisfies a pattern element.
Sat(token, e) ==
    /\ e.lemma = ANY \/ token.lemma \in e.lemma
    /\ e.lower = ANY \/ token.text \in e.lower
    /\ e.pos = ANY \/ token.pos \in e.pos
    /\ e.dep = ANY \/ token.dep \in e.dep

\* The positions at which a match of the elements k.. of the pattern that
\* goes on at token i may end (the position after its last token).
RECURSIVE Ends(_, _, _)
Ends(pattern, k, i) ==
    IF k > Len(pattern) THEN {i}
    ELSE LET e == pattern[k]
             ok == i <= Len(doc) /\ Sat(doc[i], e)
         IN  IF e.op = "1"
             THEN (IF ok THEN Ends(pattern, k + 1, i + 1) ELSE {})
             ELSE IF e.op = "?"
             THEN Ends(pattern, k + 1, i) \cup
                  (IF ok THEN Ends(pattern, k + 1, i + 1) ELSE {})
             ELSE (IF ok THEN Ends(pattern, k + 1, i + 1) \cup Ends(pattern, k, i + 1)
                         ELSE {})

\* The spans of a set in the order the matcher yields them: by the token
\* at which they end, then by the token at which they begin.
RECURSIVE InOrder(_)
InOrder(spans) ==
    IF spans = {} THEN <<>>
    ELSE LET first == CHOOSE x \in spans : \A y \in spans :
                          x[2] < y[2] \/ (x[2] = y[2] /\ x[1] <= y[1])
         IN  <<first>> \o InOrder(spans \ {first})

\* Lines 221-223: matcher(doc) with the one pattern added; a match is
\* <<start, end>>, doc[start:end] being the tokens start .. end - 1.
matcher(pattern) ==
    InOrder(UNION {{<<s, e>> : e \in {x \in Ends(pattern, 1, s) : x > s}} :
                   s \in 1..Len(doc)})

\* not x
Falsy(x) == x = None \/ x = ""

\* The outcome key from the adjectives and nouns of the span alone.
pattern_analysis_key_words(category_name, start, end) ==
    LET span == SubSeq(doc, start, end - 1)
    IN  IF \E k \in 1..Len(span) :
               span[k].pos = "ADJ" /\ In(span[k].lemma, NEGATIVE_ADJECTIVES)
        THEN (IF \E k \in 1..Len(span) :
                     span[k].pos = "NOUN" /\ In(span[k].lemma, UNIVERSAL_PROBLEMS)
              THEN "simple_adj_noun"
              ELSE IF \E k \in 1..Len(span) : span[k].lemma = aspect_name
              THEN "simple_noun_adj"
              ELSE "general")
        ELSE "general"

\* Lines 231-249: the outcome key of a match.  span.text.lower() is taken
\* as the sequence of the words of the span.
pattern_analysis_key(category_name, start, end) ==
    LET span == SubSeq(doc, start, end - 1)
        text == [k \in 1..Len(span) |-> span[k].text]
        any(test(_)) == \E k \in 1..Len(span) : test(span[k])
    IN  IF any(LAMBDA token : token.lemma \in {"due", "because"})
        THEN (IF category_name = "performance_efficiency" THEN "performance_cause"
              ELSE IF category_name = "usability_complexity" THEN "usability_cause"
              ELSE IF category_name = "service_quality" THEN "service_cause"
              ELSE "general")
        ELSE IF any(LAMBDA token : token.lemma \in {"cause", "lead"})
        THEN (IF category_name = "performance_efficiency" THEN "problem_effect"
              ELSE "general")
        ELSE IF \/ Contains(<<"for", "what", "you", "get">>, text)
                \/ Contains(<<"for", "the", "price">>, text)
        THEN (IF category_name = "cost_value" THEN "cost_value_comparison" ELSE "general")
        ELSE IF \/ Contains(<<"lack", "of", "value">>, text)
                \/ Contains(<<"poor", "value">>, text)
        THEN (IF category_name = "cost_value" THEN "lack_of_value" ELSE "general")
        ELSE IF Contains(<<"lack", "of", "variety">>, text)
        THEN (IF category_name = "product_content_quality" THEN "lack_of_variety"
              ELSE "general")
        ELSE IF any(LAMBDA adj : adj.pos = "ADJ" /\ In(adj.lemma, NEGATIVE_ADJECTIVES))
        THEN (IF any(LAMBDA pn : pn.pos = "NOUN" /\ In(pn.lemma, UNIVERSAL_PROBLEMS))
              THEN "simple_adj_noun"
              ELSE IF any(LAMBDA pn : pn.lemma = aspect_name) THEN "simple_noun_adj"
              ELSE "general")
        ELSE "general"

\* Lines 252-261: the loop over the tokens k .. end - 1 of the span.
RECURSIVE AdjectiveAndNoun(_, _, _, _)
AdjectiveAndNoun(k, end, problem_adj, problem_noun) ==
    IF k >= end THEN [problem_adj |-> problem_adj, problem_noun |-> problem_noun]
    ELSE LET token == doc[k]
         IN  IF token.dep = "amod" /\ token.pos = "ADJ" /\ doc[token.head].pos = "NOUN"
             THEN AdjectiveAndNoun(k + 1, end, token.lemma, doc[token.head].lemma)
             ELSE IF token.pos = "ADJ" /\ In(token.lemma, NEGATIVE_ADJECTIVES)
                     /\ Falsy(problem_adj)
             THEN AdjectiveAndNoun(k + 1, end, token.lemma, problem_noun)
             ELSE IF token.pos = "NOUN" /\ In(token.lemma, UNIVERSAL_PROBLEMS)
                     /\ Falsy(problem_noun)
             THEN AdjectiveAndNoun(k + 1, end, problem_adj, token.lemma)
             ELSE IF token.lemma = aspect_name /\ Falsy(problem_noun)
             THEN AdjectiveAndNoun(k + 1, end, problem_adj, token.lemma)
             ELSE AdjectiveAndNoun(k + 1, end, problem_adj, problem_noun)

\* Lines 266-280: the loop over the tokens k .. end - 1 of the span; the
\* children of a token are the tokens it is the head of.
RECURSIVE CauseOrEffect(_, _)
CauseOrEffect(k, end) ==
    LET children(dep) == SelectSeq([j \in 1..Len(doc) |-> j], LAMBDA j :
            j # k /\ doc[j].head = k /\ doc[j].dep = dep /\ doc[j].pos = "NOUN")
    IN  IF k >= end THEN [cause_or_effect_noun |-> None, extracted_type_val |-> None]
        ELSE IF doc[k].lemma \in {"due", "because"} /\ children("pobj") # <<>>
        THEN [cause_or_effect_noun |-> doc[children("pobj")[1]].lemma,
              extracted_type_val |-> "cause"]
        ELSE IF doc[k].lemma \in {"cause", "lead"} /\ children("dobj") # <<>>
        THEN [cause_or_effect_noun |-> doc[children("dobj")[1]].lemma,
              extracted_type_val |-> "effect"]
        ELSE CauseOrEffect(k + 1, end)

\* The entry of a list that the random source reaches last.
choice_of(items) == items[IF Len(items) < draws THEN Len(items) ELSE draws]

\* The tuple with an adjective drawn at random where line 286 takes the first.
MatchResult_drawn(category_name, start, end) ==
    LET found == AdjectiveAndNoun(start, end, None, None)
        relation == CauseOrEffect(start, end)
        adjectives == SelectSeq(SubSeq(doc, start, end - 1), LAMBDA t :
                          t.pos = "ADJ" /\ In(t.lemma, NEGATIVE_ADJECTIVES))
    IN  [category_name |-> category_name,
         pattern_analysis_key |-> pattern_analysis_key(category_name, start, end),
         problem_adj |->
             IF Falsy(found.problem_adj) /\ problem_words_in_context # <<>>
             THEN (IF adjectives # <<>> THEN choice_of(adjectives).lemma
                   ELSE choice_of(problem_words_in_context))
             ELSE found.problem_adj,
         problem_noun |->
             IF Falsy(found.problem_noun) THEN aspect_name ELSE found.problem_noun,
         cause_or_effect_noun |-> relation.cause_or_effect_noun,
         extracted_type_val |-> relation.extracted_type_val]

\* Lines 225-290: the tuple that a match of a pattern of the category is
\* counted under.
MatchResult(category_name, start, end) ==
    LET found == AdjectiveAndNoun(start, end, None, None)
        relation == CauseOrEffect(start, end)
        adjectives == SelectSeq(SubSeq(doc, start, end - 1), LAMBDA t :
                          t.pos = "ADJ" /\ In(t.lemma, NEGATIVE_ADJECTIVES))
    IN  [category_name |-> category_name,
         pattern_analysis_key |-> pattern_analysis_key(category_name, start, end),
         problem_adj |->
             IF Falsy(found.problem_adj) /\ problem_words_in_context # <<>>
             THEN (IF adjectives # <<>> THEN adjectives[1].lemma
                   ELSE problem_words_in_context[1])
             ELSE found.problem_adj,
         problem_noun |->
             IF Falsy(found.problem_noun) THEN aspect_name ELSE found.problem_noun,
         cause_or_effect_noun |-> relation.cause_or_effect_noun,
         extracted_type_val |-> relation.extracted_type_val]

\* primary_pattern_info before line 303.
NoPattern ==
    [category_name |-> None, pattern_analysis_key |-> None, problem_adj |-> None,
     problem_noun |-> None, cause_or_effect_noun |-> None, extracted_type_val |-> None]

\* identified_patterns[key] += 1 for the keys of a list, in its order.
RECURSIVE Tally(_, _)
Tally(counter, items) ==
    IF items = <<>> THEN counter
    ELSE LET before == Tally(counter, SubSeq(items, 1, Len(items) - 1))
             last == items[Len(items)]
         IN  IF \E k \in 1..Len(before) : before[k].key = last
             THEN [k \in 1..Len(before) |->
                      IF before[k].key = last
                      THEN [before[k] EXCEPT !.n = before[k].n + 1]
                      ELSE before[k]]
             ELSE Append(before, [key |-> last, n |-> 1])

\* Lines 218-292: one pattern of one category is added to the matcher,
\* matched, its matches are tallied, and it is removed.
MatchPattern ==
    /\ rpc = "match"
    /\ LET category == PROBLEM_CATEGORIES[cat_idx]
           matches == matcher(category.spacy_patterns[pat_idx])
           results == [k \in 1..Len(matches) |->
                          MatchResult(category.name, matches[k][1], matches[k][2])]
       IN  /\ identified_patterns' = Tally(identified_patterns, results)
           /\ match_log' = match_log \o
                  [k \in 1..Len(matches) |->
                      [cat_idx |-> cat_idx, pat_idx |-> pat_idx,
                       start |-> matches[k][1], end |-> matches[k][2],
                       result |-> results[k]]]
           /\ IF pat_idx < Len(category.spacy_patterns)
              THEN /\ pat_idx' = pat_idx + 1
                   /\ UNCHANGED <<cat_idx, rpc>>
              ELSE IF cat_idx < Len(PROBLEM_CATEGORIES)
              THEN /\ cat_idx' = cat_idx + 1
                   /\ pat_idx' = 1
                   /\ UNCHANGED rpc
              ELSE /\ rpc' = "analysis"
                   /\ UNCHANGED <<cat_idx, pat_idx>>
    /\ UNCHANGED <<aspect_name, negative_contexts, draws, analysis_lines,
                   primary_pattern_info, dominant_category, secondary_patterns_added,
                   recommendation_lines, used_rec_templates, available_general_recs,
                   added_rec_count, report>>
    /\ UNCHANGED <<doc, problem_words_in_context, potential_subject_nouns>>
    /\ UNCHANGED <<pipeline_vars, extractor_vars, page_vars>>

\* Line 294.
sorted_identified_patterns == most_common(identified_patterns)

\* The key of the last entry of the ranking.
PrimaryOf_last(sorted) == sorted[Len(sorted)].key

\* Line 303: sorted_identified_patterns[0][0].
PrimaryOf(sorted) == sorted[1].key

\* dict.get(key, default) on a list of keyed templates.
get(templates, key, default) ==
    IF \E k \in 1..Len(templates) : templates[k].key = key
    THEN templates[CHOOSE k \in 1..Len(templates) : templates[k].key = key].template
    ELSE default

\* template.format(**kwargs): the fields the template uses are replaced.
format(template, kwargs) ==
    [ordinal |-> template.ordinal,
     text |-> template.text,
     general |-> template.general,
     args |-> [p \in template.uses |-> kwargs[p]]]

\* template.format(**kwargs) raises KeyError: a field has no argument.
KeyError(template, kwargs) == ~(template.uses \subseteq DOMAIN kwargs)

\* A line of fixed text with the values put into it.
Line(text, ordinal, args) ==
    [ordinal |-> ordinal, text |-> text, general |-> FALSE, args |-> args]

\* The keyword arguments of lines 315-319 and 335-339.
AnalysisArgs(info) ==
    [aspect_name |-> aspect_display_name,
     problem_adj |->
         IF Falsy(info.problem_adj) THEN "unspecified negative" ELSE info.problem_adj,
     problem_noun |->
         IF Falsy(info.problem_noun) THEN "issue" ELSE info.problem_noun,
     cause_or_effect_noun |->
         IF Falsy(info.cause_or_effect_noun) THEN "general factors"
         ELSE info.cause_or_effect_noun,
     cause_or_effect_verb |->
         IF info.extracted_type_val = "effect" THEN "leads to" ELSE "stems from"]

\* No text is taken for part of the line.
TextIn_never(text, line) == FALSE

\* Line 342: secondary_analysis_text in analysis_lines[0].  A rendered theme
\* is a sentence, part of another line only if it is that line; the string
\* "general" is part of every line that has the word, in its template or in
\* a value.
TextIn(text, line) ==
    \/ text.text = line.text /\ text.args = line.args
    \/ /\ text.text = "general"
       /\ \/ line.general
          \/ \E p \in DOMAIN line.args : line.args[p] \in {"general", "general factors"}

\* Lines 325-346: the loop from idx on.  Line 332 takes the string "general"
\* for a template when the category has no theme of the key.  In the
\* templates the aspect name is always followed by "**", so the
\* replacements of line 340 take nothing away.
RECURSIVE SecondaryLines(_, _, _, _)
SecondaryLines(idx, lines, used_analysis_themes, added) ==
    IF idx > Len(sorted_identified_patterns) \/ added >= 2
    THEN [analysis_lines |-> lines, secondary_patterns_added |-> added, raised |-> FALSE]
    ELSE LET sec == sorted_identified_patterns[idx].key
             dominant == PrimaryOf(sorted_identified_patterns).category_name
             template == get(Category(sec.category_name).analysis_themes,
                             sec.pattern_analysis_key, Template("general", 0, {}, TRUE))
             text == format(template, AnalysisArgs(sec))
             line == [ordinal |-> 0,
                      text |-> "{prefix}users also frequently highlight: {secondary_analysis_text.lower()}.",
                      general |-> text.general,
                      args |-> [prefix |-> IF added = 0 THEN "Furthermore, "
                                           ELSE "Additionally, ",
                                secondary_analysis_text |-> "lower(" \o text.text \o ")",
                                values |-> text.args]]
         IN  IF ~(/\ sec.pattern_analysis_key \notin used_analysis_themes
                  /\ ~Falsy(sec.problem_adj)
                  /\ ~Falsy(sec.problem_noun)
                  /\ sec.category_name = dominant)
             THEN SecondaryLines(idx + 1, lines, used_analysis_themes, added)
             ELSE IF KeyError(template, AnalysisArgs(sec))
             THEN [analysis_lines |-> lines, secondary_patterns_added |-> added,
                   raised |-> TRUE]
             ELSE IF TextIn(text, lines[1])
             THEN SecondaryLines(idx + 1, lines, used_analysis_themes, added)
             ELSE SecondaryLines(idx + 1, Append(lines, line),
                                 used_analysis_themes \cup {sec.pattern_analysis_key},
                                 added + 1)

\* Lines 311-353: the analysis of the primary pattern, or the KeyError of
\* line 313 or of a format.
PatternAnalysis ==
    LET primary == PrimaryOf(sorted_identified_patterns)
        themes == Category(primary.category_name).analysis_themes
        no_template == Template("", 0, {}, FALSE)
        template == get(themes, primary.pattern_analysis_key,
                        get(themes, "general", no_template))
        raised == \/ \A k \in 1..Len(themes) : themes[k].key # "general"
                  \/ KeyError(template, AnalysisArgs(primary))
        secondary == SecondaryLines(2, <<format(template, AnalysisArgs(primary))>>,
                                    {primary.pattern_analysis_key}, 0)
        overall ==
            Line("Overall, this indicates a significant area of concern for **{aspect_display_name}**, with {total_negative_mentions} negative mentions pointing to these issues.",
                 0, [aspect_display_name |-> aspect_display_name,
                     total_negative_mentions |-> Len(negative_contexts)])
        closing ==
            Line("Addressing these identified challenges is crucial for improving overall user satisfaction and perception of **{aspect_display_name}**.",
                 0, [aspect_display_name |-> aspect_display_name])
        with_overall == IF Len(secondary.analysis_lines) < 3
                        THEN Append(secondary.analysis_lines, overall)
                        ELSE secondary.analysis_lines
    IN  IF raised \/ secondary.raised
        THEN [analysis_lines |-> <<>>, secondary_patterns_added |-> 0, raised |-> TRUE]
        ELSE [analysis_lines |-> IF Len(with_overall) < 4
                                 THEN Append(with_overall, closing) ELSE with_overall,
              secondary_patterns_added |-> secondary.secondary_patterns_added,
              raised |-> FALSE]

\* Lines 294-365: the ranking, the primary pattern and the analysis lines.
WriteAnalysis ==
    /\ rpc = "analysis"
    /\ IF sorted_identified_patterns # <<>>
       THEN /\ primary_pattern_info' = PrimaryOf(sorted_identified_patterns)
            /\ dominant_category' = PrimaryOf(sorted_identified_patterns).category_name
            /\ analysis_lines' = PatternAnalysis.analysis_lines
            /\ secondary_patterns_added' = PatternAnalysis.secondary_patterns_added
            /\ rpc' = IF PatternAnalysis.raised THEN "raised" ELSE "recommend"
       ELSE /\ analysis_lines' =
                   IF problem_words_in_context # <<>>
                   THEN <<Line("The primary concern for **{aspect_display_name}** is its **{primary_problem}** aspect, often related to **{primary_subject}**.",
                               0, [aspect_display_name |-> aspect_display_name,
                                   primary_problem |-> problem_words_in_context[1],
                                   primary_subject |->
                                       IF potential_subject_nouns # <<>>
                                       THEN potential_subject_nouns[1]
                                       ELSE "the overall experience"]),
                          Line("This suggests a need for deeper investigation into the specific instances mentioned by users.",
                               0, <<>>),
                          Line("A thorough review of negative feedback for {aspect_display_name} is highly recommended.",
                               0, [aspect_display_name |-> aspect_display_name])>>
                   ELSE <<Line("Negative feedback for **{aspect_name}** is diverse, without clear dominant problem phrases or keywords.",
                               0, [aspect_name |-> aspect_name]),
                          Line("A thorough manual review of comments is recommended to uncover the core problems.",
                               0, <<>>),
                          Line("Consider implementing more structured feedback collection for this aspect.",
                               0, <<>>)>>
            /\ rpc' = "recommend"
            /\ UNCHANGED <<primary_pattern_info, dominant_category,
                           secondary_patterns_added>>
    /\ UNCHANGED <<aspect_name, negative_contexts, draws, cat_idx, pat_idx,
                   identified_patterns, match_log, recommendation_lines,
                   used_rec_templates, available_general_recs, added_rec_count, report>>
    /\ UNCHANGED <<doc, problem_words_in_context, potential_subject_nouns>>
    /\ UNCHANGED <<pipeline_vars, extractor_vars, page_vars>>

\* random.choice(items): one of the entries the random source reaches.
choice(items) == {items[k] : k \in 1..Min(Len(items), draws)}

\* The loop of line 408 with a bound of three recommendations.
MoreRecommendations_three(added, available) == added < 3 /\ available # <<>>

\* Line 408: the condition of the loop.
MoreRecommendations(added, available) == added < 4 /\ available # <<>>

\* Lines 398-408: the first recommendation is in; the general templates
\* not used yet are listed and the loop condition is tested.
Begin(line, rec_template_for_set, general_recs) ==
    LET available == SelectSeq(general_recs, LAMBDA rec :
                         rec.template.text # rec_template_for_set)
    IN  /\ recommendation_lines' = <<line>>
        /\ used_rec_templates' = {rec_template_for_set}
        /\ added_rec_count' = 1
        /\ available_general_recs' = available
        /\ rpc' = IF MoreRecommendations(1, available) THEN "general" ELSE "number"

\* Lines 368-408: the first recommendation.  Without a template of the key,
\* line 397 takes its own rendered text for the template.
FirstRecommendation ==
    /\ rpc = "recommend"
    /\ ~Falsy(dominant_category)
    /\ primary_pattern_info # NoPattern
    /\ LET recommendation_phrases == Category(dominant_category).recommendation_phrases
           relevant_recs == SelectSeq(recommendation_phrases, LAMBDA rec :
                                rec.key = primary_pattern_info.pattern_analysis_key)
           general_recs == SelectSeq(recommendation_phrases, LAMBDA rec : rec.key = None)
           generic == "1. **{fix_verb}** the core issues contributing to the **{primary_problem_adj}** sentiment around **{aspect_display_name}**, focusing on **{area_of_focus}**."
       IN  \E fix_verb \in choice(ACTION_VERBS), area_of_focus \in choice(UNIVERSAL_PROBLEMS) :
               IF relevant_recs # <<>>
               THEN \E rec \in choice(relevant_recs) :
                    \E random_action_1 \in (IF rec.random_actions # <<>>
                                           THEN choice(rec.random_actions) ELSE {""}) :
                        LET kwargs == [fix_verb |-> Titled(fix_verb),
                                       area_of_focus |-> area_of_focus,
                                       random_action_1 |-> random_action_1]
                                      @@ AnalysisArgs(primary_pattern_info)
                        IN  IF KeyError(rec.template, kwargs)
                            THEN /\ rpc' = "raised"
                                 /\ UNCHANGED <<recommendation_lines, used_rec_templates,
                                                added_rec_count, available_general_recs>>
                            ELSE Begin(format(rec.template, kwargs), rec.template.text,
                                       general_recs)
               ELSE Begin(Line(generic, 1,
                               [fix_verb |-> Titled(fix_verb),
                                primary_problem_adj |-> primary_pattern_info.problem_adj,
                                aspect_display_name |-> aspect_display_name,
                                area_of_focus |-> area_of_focus]),
                          generic, general_recs)
    /\ UNCHANGED <<aspect_name, negative_contexts, draws, cat_idx, pat_idx,
                   identified_patterns, match_log, analysis_lines, primary_pattern_info,
                   dominant_category, secondary_patterns_added, report>>
    /\ UNCHANGED <<doc, problem_words_in_context, potential_subject_nouns>>
    /\ UNCHANGED <<pipeline_vars, extractor_vars, page_vars>>

\* list.remove(x): the first entry equal to x is taken out.
Remove(items, x) ==
    LET at == CHOOSE k \in 1..Len(items) :
                  items[k] = x /\ \A j \in 1..(k - 1) : items[j] # x
    IN  SubSeq(items, 1, at - 1) \o SubSeq(items, at + 1, Len(items))

\* Lines 408-426: one iteration of the loop over the general templates.
GeneralRecommendation ==
    /\ rpc = "general"
    /\ \E chosen_rec \in choice(available_general_recs) :
       \E fix_verb \in choice(ACTION_VERBS), area_of_focus \in choice(UNIVERSAL_PROBLEMS) :
       \E random_action_1 \in (IF chosen_rec.random_actions # <<>>
                              THEN choice(chosen_rec.random_actions) ELSE {""}) :
           LET kwargs == [fix_verb |-> Titled(fix_verb),
                          aspect_name |-> aspect_display_name,
                          area_of_focus |-> area_of_focus,
                          random_action_1 |-> random_action_1]
               remaining == Remove(available_general_recs, chosen_rec)
           IN  IF chosen_rec.template.text \in used_rec_templates
               THEN UNCHANGED <<recommendation_lines, used_rec_templates, added_rec_count,
                                available_general_recs, rpc>>
               ELSE IF KeyError(chosen_rec.template, kwargs)
               THEN /\ rpc' = "raised"
                    /\ UNCHANGED <<recommendation_lines, used_rec_templates,
                                   added_rec_count, available_general_recs>>
               ELSE /\ recommendation_lines' =
                           Append(recommendation_lines, format(chosen_rec.template, kwargs))
                    /\ used_rec_templates' =
                           used_rec_templates \cup {chosen_rec.template.text}
                    /\ added_rec_count' = added_rec_count + 1
                    /\ available_general_recs' = remaining
                    /\ rpc' = IF MoreRecommendations(added_rec_count + 1, remaining)
                              THEN "general" ELSE "number"
    /\ UNCHANGED <<aspect_name, negative_contexts, draws, cat_idx, pat_idx,
                   identified_patterns, match_log, analysis_lines, primary_pattern_info,
                   dominant_category, secondary_patterns_added, report>>
    /\ UNCHANGED <<doc, problem_words_in_context, potential_subject_nouns>>
    /\ UNCHANGED <<pipeline_vars, extractor_vars, page_vars>>

\* Lines 429-434: the recommendations when no pattern matched.
FallbackRecommendations ==
    /\ rpc = "recommend"
    /\ Falsy(dominant_category) \/ primary_pattern_info = NoPattern
    /\ \E fix_verb \in choice(ACTION_VERBS) :
        recommendation_lines' =
            <<Line("1. **Conduct a focused root cause analysis** on all negative feedback for this aspect to pinpoint critical areas for improvement.",
                   1, <<>>),
              Line("2. **Implement a structured feedback mechanism** to gather more specific and actionable insights from users.",
                   2, <<>>),
              Line("3. **Prioritize corrective actions** based on the frequency and severity of reported problems to allocate resources effectively.",
                   3, <<>>),
              Line("4. **Engage with key users** who provided negative feedback to validate identified problems and potential solutions.",
                   4, <<>>),
              Line("5. **{random.choice(ACTION_VERBS).title()}** an internal workshop with relevant teams to brainstorm solutions for **{aspect_display_name}**'s negative perception.",
                   5, [fix_verb |-> Titled(fix_verb),
                       aspect_display_name |-> aspect_display_name])>>
    /\ rpc' = "number"
    /\ UNCHANGED <<aspect_name, negative_contexts, draws, cat_idx, pat_idx,
                   identified_patterns, match_log, analysis_lines, primary_pattern_info,
                   dominant_category, secondary_patterns_added, used_rec_templates,
                   available_general_recs, added_rec_count, report>>
    /\ UNCHANGED <<doc, problem_words_in_context, potential_subject_nouns>>
    /\ UNCHANGED <<pipeline_vars, extractor_vars, page_vars>>

\* The line without an ordinal.
Numbered_bare(i, line) == [line EXCEPT !.ordinal = 0]

\* Lines 438-441: a line that begins with no ordinal gets its position.
Numbered(i, line) == IF line.ordinal = 0 THEN [line EXCEPT !.ordinal = i] ELSE line

\* Lines 436-453: the lines are numbered and the two texts are returned.
ReturnReport ==
    /\ rpc = "number"
    /\ report' = [analysis_text |-> analysis_lines,
                  recommendations_text |->
                      [i \in 1..Len(recommendation_lines) |->
                          Numbered(i, recommendation_lines[i])]]
    /\ rpc' = "returned"
    /\ UNCHANGED <<aspect_name, negative_contexts, draws, cat_idx, pat_idx,
                   identified_patterns, match_log, analysis_lines, primary_pattern_info,
                   dominant_category, secondary_patterns_added, recommendation_lines,
                   used_rec_templates, available_general_recs, added_rec_count>>
    /\ UNCHANGED <<doc, problem_words_in_context, potential_subject_nouns>>
    /\ UNCHANGED <<pipeline_vars, extractor_vars, page_vars>>

NextReport ==
    \/ MatchPattern
    \/ WriteAnalysis
    \/ FirstRecommendation
    \/ GeneralRecommendation
    \/ FallbackRecommendations
    \/ ReturnReport

\* generate_dynamic_content_universal is not entered.
ReportIdle ==
    /\ aspect_name = ""
    /\ negative_contexts = <<>>
    /\ draws = 1
    /\ rpc = "off"
    /\ doc = <<>>
    /\ problem_words_in_context = <<>>
    /\ potential_subject_nouns = <<>>
    /\ cat_idx = 1
    /\ pat_idx = 1
    /\ identified_patterns = <<>>
    /\ match_log = <<>>
    /\ analysis_lines = <<>>
    /\ primary_pattern_info = NoPattern
    /\ dominant_category = None
    /\ secondary_patterns_added = 0
    /\ recommendation_lines = <<>>
    /\ used_rec_templates = {}
    /\ available_general_recs = <<>>
    /\ added_rec_count = 0
    /\ report = [analysis_text |-> <<>>, recommendations_text |-> <<>>]

\* No call of generate_dynamic_content_universal came earlier.
NoRun == [dominant_category |-> None, primary_pattern_info |-> NoPattern, n |-> 0]

\* The keys of st.session_state.chart_data (lines 572-691); an entry not
\* assigned yet holds no figure.
ChartKeys == {"top_aspects", "top_positive", "top_negative", "top_neutral",
              "word_cloud", "treemap"}

NoFigure == [chart |-> None]

\* Nothing was rendered, no PDF was generated.
NoScreen == [page |-> "none", warning |-> FALSE, sample |-> FALSE]
NoPdf == [generated |-> FALSE]

\* Lines 461-468 of the report page: the session holds no chart and no
\* analysis text; no page has been rendered.
PageIdle ==
    /\ earlier = NoRun
    /\ chart_data = [k \in ChartKeys |-> NoFigure]
    /\ negative_analysis_data = <<>>
    /\ shown = NoScreen
    /\ pdf = NoPdf

\* The pipeline after the page is loaded and a file is uploaded (lines 26-29).
PipelineIdle(worlds, fault_set) ==
    /\ \E w \in worlds : df = w.df /\ nps_col = w.nps_col
    /\ faults = fault_set
    /\ session_state = [processed_data |-> NoTable, summary_data |-> NoTable]
    /\ pc = "idle"
    /\ run = 0
    /\ all_sentences = <<>>
    /\ sentence_map = <<>>
    /\ sentiment_results = <<>>
    /\ batch_start = 0
    /\ calls = <<>>
    /\ fault = "none"
    /\ full_data = <<>>
    /\ summary_sentiment_map = <<>>
    /\ summary_data = <<>>
    /\ blend_log = <<>>

\* The state after the page is loaded and a file is uploaded: no call of
\* extract_aspects_from_sentence is followed token by token.
InitWith(worlds, fault_set) ==
    /\ PipelineIdle(worlds, fault_set)
    /\ ExtractorIdle
    /\ ReportIdle
    /\ PageIdle

\* The tagged tokens the sentences are made of: nouns and adjectives, one
\* of two letters; a verb; an adjective that is a stop word; a noun that is
\* not alphabetic.
TaggedToken(word, tag) == [word |-> word, tag |-> tag]
Vocabulary ==
    {TaggedToken(<<"a", "p", "p">>, <<"N", "N">>),
     TaggedToken(<<"f", "e", "e">>, <<"N", "N", "S">>),
     TaggedToken(<<"s", "l", "o", "w">>, <<"J", "J">>),
     TaggedToken(<<"u", "i">>, <<"N", "N">>),
     TaggedToken(<<"i", "s">>, <<"V", "B", "Z">>),
     TaggedToken(<<"o", "w", "n">>, <<"J", "J">>),
     TaggedToken(<<"w", "i", "-", "f", "i">>, <<"N", "N">>)}

\* extract_aspects_from_sentence is entered with a tokenised sentence.
InitExtractor ==
    /\ PipelineIdle({[df |-> <<>>, nps_col |-> None]}, {"raise"})
    /\ tagged_words \in SeqsUpTo(Vocabulary, MaxTokens)
    /\ token_i = 0
    /\ current_aspect_phrase = <<>>
    /\ potential_aspects = <<>>
    /\ extracted = <<>>
    /\ xpc = "scan"
    /\ ReportIdle
    /\ PageIdle

SpecExtractor == InitExtractor /\ [][NextExtractor]_vars

\* The negative contexts of the model, as the spaCy pipeline parses them.
Contexts ==
    [price_is_too_expensive |->     \* "the price is too expensive."
        <<Token("the", "the", "DET", "det", 2),
          Token("price", "price", "NOUN", "nsubj", 3),
          Token("is", "be", "AUX", "ROOT", 3),
          Token("too", "too", "ADV", "advmod", 5),
          Token("expensive", "expensive", "ADJ", "acomp", 3),
          Token(".", ".", "PUNCT", "punct", 3)>>,
     expensive_for_the_basic_plan |->     \* "expensive for the basic plan."
        <<Token("expensive", "expensive", "ADJ", "ROOT", 1),
          Token("for", "for", "ADP", "prep", 1),
          Token("the", "the", "DET", "det", 5),
          Token("basic", "basic", "ADJ", "amod", 5),
          Token("plan", "plan", "NOUN", "pobj", 2),
          Token(".", ".", "PUNCT", "punct", 1)>>,
     too_expensive_for_the_price |->     \* "too expensive for the price."
        <<Token("too", "too", "ADV", "advmod", 2),
          Token("expensive", "expensive", "ADJ", "ROOT", 2),
          Token("for", "for", "ADP", "prep", 2),
          Token("the", "the", "DET", "det", 5),
          Token("price", "price", "NOUN", "pobj", 3),
          Token(".", ".", "PUNCT", "punct", 2)>>,
     way_too_expensive |->
        \* "the subscription cost is way too expensive, it's a huge fee."
        <<Token("the", "the", "DET", "det", 3),
          Token("subscription", "subscription", "NOUN", "compound", 3),
          Token("cost", "cost", "NOUN", "nsubj", 4),
          Token("is", "be", "AUX", "ccomp", 10),
          Token("way", "way", "ADV", "advmod", 6),
          Token("too", "too", "ADV", "advmod", 7),
          Token("expensive", "expensive", "ADJ", "acomp", 4),
          Token(",", ",", "PUNCT", "punct", 10),
          Token("it", "it", "PRON", "nsubj", 10),
          Token("'s", "be", "AUX", "ROOT", 10),
          Token("a", "a", "DET", "det", 13),
          Token("huge", "huge", "ADJ", "amod", 13),
          Token("fee", "fee", "NOUN", "attr", 10),
          Token(".", ".", "PUNCT", "punct", 10)>>,
     the_staff_is_rude |->     \* "the staff is rude."
        <<Token("the", "the", "DET", "det", 2),
          Token("staff", "staff", "NOUN", "nsubj", 3),
          Token("is", "be", "AUX", "ROOT", 3),
          Token("rude", "rude", "ADJ", "acomp", 3),
          Token(".", ".", "PUNCT", "punct", 3)>>,
     staff_was_rude_and_overpriced |->     \* "staff was very rude and overpriced."
        <<Token("staff", "staff", "NOUN", "nsubj", 2),
          Token("was", "be", "AUX", "ROOT", 2),
          Token("very", "very", "ADV", "advmod", 4),
          Token("rude", "rude", "ADJ", "acomp", 2),
          Token("and", "and", "CCONJ", "cc", 4),
          Token("overpriced", "overpriced", "ADJ", "conj", 4),
          Token(".", ".", "PUNCT", "punct", 2)>>,
     the_support_is_slow |->     \* "the support is slow."
        <<Token("the", "the", "DET", "det", 2),
          Token("support", "support", "NOUN", "nsubj", 3),
          Token("is", "be", "AUX", "ROOT", 3),
          Token("slow", "slow", "ADJ", "acomp", 3),
          Token(".", ".", "PUNCT", "punct", 3)>>,
     slow_server_crashed |->     \* "slow server crashed."
        <<Token("slow", "slow", "ADJ", "amod", 2),
          Token("server", "server", "NOUN", "nsubj", 3),
          Token("crashed", "crash", "VERB", "ROOT", 3),
          Token(".", ".", "PUNCT", "punct", 3)>>,
     the_interface_is_confusing |->     \* "the interface is confusing."
        <<Token("the", "the", "DET", "det", 2),
          Token("interface", "interface", "NOUN", "nsubj", 3),
          Token("is", "be", "AUX", "ROOT", 3),
          Token("confusing", "confusing", "ADJ", "acomp", 3),
          Token(".", ".", "PUNCT", "punct", 3)>>,
     the_food_was_cold |->     \* "the food was cold."
        <<Token("the", "the", "DET", "det", 2),
          Token("food", "food", "NOUN", "nsubj", 3),
          Token("was", "be", "AUX", "ROOT", 3),
          Token("cold", "cold", "ADJ", "acomp", 3),
          Token(".", ".", "PUNCT", "punct", 3)>>,
     a_huge_fee |->     \* "a huge fee."
        <<Token("a", "a", "DET", "det", 3),
          Token("huge", "huge", "ADJ", "amod", 3),
          Token("fee", "fee", "NOUN", "ROOT", 3),
          Token(".", ".", "PUNCT", "punct", 3)>>,
     meh |->     \* "meh."
        <<Token("meh", "meh", "INTJ", "ROOT", 1),
          Token(".", ".", "PUNCT", "punct", 1)>>,
     slow_due_to_bugs |->     \* "slow due to bugs."
        <<Token("slow", "slow", "ADJ", "ROOT", 1),
          Token("due", "due", "ADP", "prep", 1),
          Token("to", "to", "ADP", "pcomp", 2),
          Token("bugs", "bug", "NOUN", "pobj", 3),
          Token(".", ".", "PUNCT", "punct", 1)>>,
     slow_because_of_lag |->     \* "slow because of lag."
        \* (the object of the two-word preposition hangs on its first word)
        <<Token("slow", "slow", "ADJ", "ROOT", 1),
          Token("because", "because", "SCONJ", "prep", 1),
          Token("of", "of", "ADP", "pcomp", 2),
          Token("lag", "lag", "NOUN", "pobj", 2),
          Token(".", ".", "PUNCT", "punct", 1)>>,
     bugs_cause_crashes |->     \* "bugs cause crashes."
        <<Token("bugs", "bug", "NOUN", "nsubj", 2),
          Token("cause", "cause", "VERB", "ROOT", 2),
          Token("crashes", "crash", "NOUN", "dobj", 2),
          Token(".", ".", "PUNCT", "punct", 2)>>,
     hard_to_use_due_to_the_layout |->     \* "hard to use due to the layout."
        <<Token("hard", "hard", "ADJ", "ROOT", 1),
          Token("to", "to", "PART", "aux", 3),
          Token("use", "use", "VERB", "xcomp", 1),
          Token("due", "due", "ADP", "prep", 3),
          Token("to", "to", "ADP", "pcomp", 4),
          Token("the", "the", "DET", "det", 7),
          Token("layout", "layout", "NOUN", "pobj", 5),
          Token(".", ".", "PUNCT", "punct", 1)>>,
     lack_of_value_for_the_cost |->     \* "lack of value for the cost."
        <<Token("lack", "lack", "NOUN", "ROOT", 1),
          Token("of", "of", "ADP", "prep", 1),
          Token("value", "value", "NOUN", "pobj", 2),
          Token("for", "for", "ADP", "prep", 3),
          Token("the", "the", "DET", "det", 6),
          Token("cost", "cost", "NOUN", "pobj", 4),
          Token(".", ".", "PUNCT", "punct", 1)>>,
     lack_of_value_for_the_price |->     \* "lack of value for the price."
        <<Token("lack", "lack", "NOUN", "ROOT", 1),
          Token("of", "of", "ADP", "prep", 1),
          Token("value", "value", "NOUN", "pobj", 2),
          Token("for", "for", "ADP", "prep", 3),
          Token("the", "the", "DET", "det", 6),
          Token("price", "price", "NOUN", "pobj", 4),
          Token(".", ".", "PUNCT", "punct", 1)>>,
     lack_of_variety_in_the_menu |->     \* "lack of variety in the menu."
        <<Token("lack", "lack", "NOUN", "ROOT", 1),
          Token("of", "of", "ADP", "prep", 1),
          Token("variety", "variety", "NOUN", "pobj", 2),
          Token("in", "in", "ADP", "prep", 3),
          Token("the", "the", "DET", "det", 6),
          Token("menu", "menu", "NOUN", "pobj", 4),
          Token(".", ".", "PUNCT", "punct", 1)>>,
     menus_lack_options |->     \* "the menus lack options."
        <<Token("the", "the", "DET", "det", 2),
          Token("menus", "menu", "NOUN", "nsubj", 3),
          Token("lack", "lack", "VERB", "ROOT", 3),
          Token("options", "option", "NOUN", "dobj", 3),
          Token(".", ".", "PUNCT", "punct", 3)>>,
     poor_service_from_the_lead_agent |->     \* "poor service from the lead agent."
        <<Token("poor", "poor", "ADJ", "amod", 2),
          Token("service", "service", "NOUN", "ROOT", 2),
          Token("from", "from", "ADP", "prep", 2),
          Token("the", "the", "DET", "det", 6),
          Token("lead", "lead", "ADJ", "amod", 6),
          Token("agent", "agent", "NOUN", "pobj", 3),
          Token(".", ".", "PUNCT", "punct", 2)>>,
     very_expensive_for_the_price |->     \* "very expensive for the price."
        <<Token("very", "very", "ADV", "advmod", 2),
          Token("expensive", "expensive", "ADJ", "ROOT", 2),
          Token("for", "for", "ADP", "prep", 2),
          Token("the", "the", "DET", "det", 5),
          Token("price", "price", "NOUN", "pobj", 3),
          Token(".", ".", "PUNCT", "punct", 2)>>]

\* The contexts in the order of the dataset.
Library ==
    <<Contexts.way_too_expensive, Contexts.expensive_for_the_basic_plan,
      Contexts.price_is_too_expensive, Contexts.too_expensive_for_the_price,
      Contexts.the_staff_is_rude, Contexts.staff_was_rude_and_overpriced,
      Contexts.the_support_is_slow, Contexts.slow_server_crashed,
      Contexts.the_interface_is_confusing, Contexts.the_food_was_cold,
      Contexts.a_huge_fee, Contexts.meh>>

\* Lines 697-723 and 191-216: generate_dynamic_content_universal is entered
\* with an aspect and the distinct contexts of its negative rows, at most n
\* of them, in the order of the dataset; the contexts are joined,
\* lower-cased and parsed, the words are counted, and the tally is empty.
ReportEnteredOn(dataset, n, width) ==
    /\ PipelineIdle({[df |-> <<>>, nps_col |-> None]}, {"raise"})
    /\ ExtractorIdle
    /\ aspect_name \in {"cost", "plan"}
    /\ \E rows \in {s \in SeqsUpTo(1..Len(dataset), n) :
                       \A i, j \in 1..Len(s) : i < j => s[i] < s[j]} :
           negative_contexts = [k \in 1..Len(rows) |-> dataset[rows[k]]]
    /\ draws = width
    /\ rpc = "match"
    /\ doc = nlp(negative_contexts)
    /\ problem_words_in_context = ProblemWords(word_counts(doc))
    /\ potential_subject_nouns = SubjectNouns(word_counts(doc))
    /\ cat_idx = 1
    /\ pat_idx = 1
    /\ identified_patterns = <<>>
    /\ match_log = <<>>
    /\ analysis_lines = <<>>
    /\ primary_pattern_info = NoPattern
    /\ dominant_category = None
    /\ secondary_patterns_added = 0
    /\ recommendation_lines = <<>>
    /\ used_rec_templates = {}
    /\ available_general_recs = <<>>
    /\ added_rec_count = 0
    /\ report = [analysis_text |-> <<>>, recommendations_text |-> <<>>]
    /\ PageIdle

ReportEntered(n, width) == ReportEnteredOn(Library, n, width)

\* Pools of several contexts; the random source always draws the first entry.
InitReport == ReportEntered(MaxContexts, 1)

SpecReport == InitReport /\ [][NextReport]_vars

\* Pools of at most one context; the random source draws among the first
\* MaxDraws entries.
InitRecs == ReportEntered(1, MaxDraws)

SpecRecs == InitRecs /\ [][NextReport]_vars

\* A dataset whose contexts have causal connectives, verbs of effect, the
\* fixed phrases of lines 239-243, and a match without an adjective.
CausalLibrary ==
    <<Contexts.slow_due_to_bugs, Contexts.slow_because_of_lag,
      Contexts.bugs_cause_crashes, Contexts.hard_to_use_due_to_the_layout,
      Contexts.lack_of_value_for_the_cost, Contexts.lack_of_value_for_the_price,
      Contexts.lack_of_variety_in_the_menu, Contexts.menus_lack_options,
      Contexts.poor_service_from_the_lead_agent, Contexts.price_is_too_expensive,
      Contexts.expensive_for_the_basic_plan, Contexts.too_expensive_for_the_price,
      Contexts.very_expensive_for_the_price>>

\* Pools of several contexts of that dataset; the random source always
\* draws the first entry.
InitCausal == ReportEnteredOn(CausalLibrary, MaxContexts, 1)

SpecCausal == InitCausal /\ [][NextReport]_vars

\* Line 722 in a later run of the page script: the function is called again
\* with the same aspect and the same contexts.  What the earlier call found
\* is kept for comparison, the locals start afresh, and the random source
\* of the new call reaches any number of entries.
Rerun ==
    /\ rpc = "returned"
    /\ earlier.n < MaxReruns
    /\ earlier' = [dominant_category |-> dominant_category,
                   primary_pattern_info |-> primary_pattern_info,
                   n |-> earlier.n + 1]
    /\ draws' \in 1..MaxDraws
    /\ rpc' = "match"
    /\ doc' = nlp(negative_contexts)
    /\ problem_words_in_context' = ProblemWords(word_counts(nlp(negative_contexts)))
    /\ potential_subject_nouns' = SubjectNouns(word_counts(nlp(negative_contexts)))
    /\ cat_idx' = 1
    /\ pat_idx' = 1
    /\ identified_patterns' = <<>>
    /\ match_log' = <<>>
    /\ analysis_lines' = <<>>
    /\ primary_pattern_info' = NoPattern
    /\ dominant_category' = None
    /\ secondary_patterns_added' = 0
    /\ recommendation_lines' = <<>>
    /\ used_rec_templates' = {}
    /\ available_general_recs' = <<>>
    /\ added_rec_count' = 0
    /\ report' = [analysis_text |-> <<>>, recommendations_text |-> <<>>]
    /\ UNCHANGED <<aspect_name, negative_contexts>>
    /\ UNCHANGED <<chart_data, negative_analysis_data, shown, pdf>>
    /\ UNCHANGED <<pipeline_vars, extractor_vars>>

NextTwice ==
    \/ NextReport
    \/ Rerun

\* Two calls on the same aspect and the same pool of at most MaxRepeated
\* contexts; the random source of the first call draws the first entry, that
\* of the second any of the first MaxDraws.
InitTwice == ReportEnteredOn(CausalLibrary, MaxRepeated, 1)

SpecTwice == InitTwice /\ [][NextTwice]_vars

\* Three sentences that differ in label, confidence, aspects and length.
S1 == Sentence(LABEL_2, Rat(1, 1), <<>>, 3, 0)
S2 == Sentence(LABEL_0, Rat(1, 2), <<"Price">>, 600, 0)
S3 == Sentence(<<"l", "a", "b", "e", "l", "_", "1">>, Rat(4, 5), <<"Price", "Support">>, 512, 1)

MainWorlds ==
    Worlds(RowsOver(ReviewsOver({S1, S2, S3}), {NumCell(10, 1)}), MaxReviews, {"NPS"})

\* The pipeline with a classifier that answers every input or raises.
Init == InitWith(MainWorlds, {"raise"})

Spec == Init /\ [][Next]_vars

(***************************************************************************)
(* The session across script runs: the report page (Pages/3_Report.py,     *)
(* lines 461-883) and the results display of the analysis page             *)
(* (Pages/2_Analysis.py, lines 210-234).  A page is rendered by one run of *)
(* its script from top to bottom.                                          *)
(*                                                                         *)
(* Representation.                                                         *)
(*  - A figure is named by its chart and by the data it was drawn from:    *)
(*    the mentions per aspect and sentiment for the bar charts and the     *)
(*    treemap, the negative contexts for the word cloud.  Which bars a     *)
(*    chart cuts off (head(10), head(3), head(20)) is not followed.        *)
(*  - st.session_state.negative_analysis_data is the list of its items in  *)
(*    insertion order.  The text stored under an aspect is named by the    *)
(*    arguments of the call of line 722 that returned it.                  *)
(***************************************************************************)
SampleRow(aspect, sentiment, context) ==
    [Aspect |-> aspect, Aspect_Sentiment |-> sentiment,
     Aspect_Context |-> [text |-> context]]

\* Lines 473-506: the sample detail table.
dummy_data ==
    <<SampleRow("performance", "Positive", "The system is fast and reliable."),
      SampleRow("cost", "Negative", "The subscription cost is way too expensive, it's a huge fee."),
      SampleRow("user_interface", "Neutral", "The UI is ok, not bad, not good."),
      SampleRow("performance", "Negative", "The performance is incredibly slow and it keeps crashing, a real bug."),
      SampleRow("support", "Negative", "Customer support was unhelpful and slow to respond."),
      SampleRow("cost", "Negative", "The price is prohibitive and exorbitant for what you get."),
      SampleRow("food", "Negative", "The food was bland and cold, very disappointing and poor quality."),
      SampleRow("food", "Positive", "The taste was amazing, loved it!"),
      SampleRow("staff", "Negative", "The staff seemed uninterested and rude, very poor service."),
      SampleRow("menu", "Neutral", "The menu is a bit limited, lacking variety."),
      SampleRow("food", "Negative", "The portion sizes were ridiculously small."),
      SampleRow("cost", "Negative", "The monthly fee is too high, it's overpriced."),
      SampleRow("performance", "Negative", "The app lags constantly and is very unstable because of server issues."),
      SampleRow("app", "Negative", "The app has a lot of bugs and crashes frequently, leading to data loss."),
      SampleRow("service", "Negative", "The service provided by the team was very poor and unhelpful due to lack of training."),
      SampleRow("user_interface", "Negative", "The user interface is confusing and difficult to navigate for new users."),
      SampleRow("product", "Negative", "The product quality is bad, it broke after a week."),
      SampleRow("support", "Negative", "Support response time is long and frustrating."),
      SampleRow("performance", "Negative", "Frequent freezes make the software unusable, a serious glitch."),
      SampleRow("product_quality", "Negative", "The content provided is inaccurate and insufficient.")>>

\* Lines 509-518: one sentiment drawn per sample row; the first is made
\* Negative when none is.
SampleSummary(overall_sentiments) ==
    [i \in 1..Len(dummy_data) |->
        [Review |-> i,
         Final_Sentiment |->
             IF i = 1 /\ \A j \in 1..Len(dummy_data) : overall_sentiments[j] # "Negative"
             THEN "Negative"
             ELSE overall_sentiments[i]]]

\* The tables are the sample tables of lines 473-518: their summary has the
\* column "Review" of line 514, which process_reviews never writes.
IsSample(tables) ==
    /\ ~tables.summary_data.is_none
    /\ tables.summary_data.rows # <<>>
    /\ "Review" \in DOMAIN tables.summary_data.rows[1]

\* Lines 471-518: the tables the script goes on with.  When either table is
\* None the sample tables are stored in the session.
TablesAfterFallback(overall_sentiments) ==
    IF session_state.processed_data.is_none \/ session_state.summary_data.is_none
    THEN [processed_data |-> DataFrame(dummy_data),
          summary_data |-> DataFrame(SampleSummary(overall_sentiments))]
    ELSE session_state

\* str.lower() on the aspects of the datasets.
str_lower(aspect) ==
    CASE aspect = "Price" -> "price"
      [] aspect = "Support" -> "support"
      [] OTHER -> aspect

\* The mentions per lower-cased aspect and sentiment (lines 545-553, 581-586,
\* 676-680).
Mentions(rows) ==
    {[Aspect |-> str_lower(rows[i].Aspect),
      Aspect_Sentiment |-> rows[i].Aspect_Sentiment,
      Count |-> Cardinality({j \in 1..Len(rows) :
                   /\ str_lower(rows[j].Aspect) = str_lower(rows[i].Aspect)
                   /\ rows[j].Aspect_Sentiment = rows[i].Aspect_Sentiment})] :
        i \in 1..Len(rows)}

\* Lines 698-699: the negative rows.
negative_aspects_df(rows) ==
    SelectSeq(rows, LAMBDA r : r.Aspect_Sentiment = "Negative")

\* Line 648: the contexts of the negative rows.
neg_contexts(rows) ==
    LET negative == negative_aspects_df(rows)
    IN  [i \in 1..Len(negative) |-> negative[i].Aspect_Context]

Figure(chart, data) == [chart |-> chart, data |-> data]

\* Lines 552-691: the chart entries after the script ran on the rows.  An
\* entry is assigned only in the branch that draws its figure.
ChartsAfter(charts, rows) ==
    LET mentions == Mentions(rows)
        contexts == neg_contexts(rows)
    IN  [k \in ChartKeys |->
            IF k = "word_cloud"
            THEN (IF rows # <<>> /\ contexts # <<>> THEN Figure(k, contexts)
                  ELSE charts[k])
            ELSE (IF rows # <<>> THEN Figure(k, mentions) ELSE charts[k])]

\* Lines 709-711: the distinct contexts of the negative rows of an aspect.
aspect_negative_contexts(rows, aspect) ==
    LET of_aspect == SelectSeq(negative_aspects_df(rows),
                               LAMBDA r : str_lower(r.Aspect) = aspect)
        counted == Counter([i \in 1..Len(of_aspect) |-> of_aspect[i].Aspect_Context])
    IN  [i \in 1..Len(counted) |-> counted[i].key]

\* The text returned by generate_dynamic_content_universal(aspect, contexts).
dynamic_output(aspect, contexts) == [aspect |-> aspect, negative_contexts |-> contexts]

\* The negative mentions per aspect, in first-seen order.
NegativeCounts(rows) ==
    LET negative == negative_aspects_df(rows)
    IN  Counter([i \in 1..Len(negative) |-> str_lower(negative[i].Aspect)])

\* The rankings of at most n of the counted entries by descending count; the
\* order among entries of equal count is left open.
RECURSIVE value_counts_head(_, _)
value_counts_head(entries, n) ==
    IF n = 0 \/ entries = {} THEN {<<>>}
    ELSE UNION {{<<e.key>> \o rest : rest \in value_counts_head(entries \ {e}, n - 1)} :
                   e \in {x \in entries : \A y \in entries : y.n <= x.n}}

\* Line 702: value_counts().head(5), the aspects by descending count, at most
\* five of them.
TopNegativeAspects(rows) ==
    LET counts == NegativeCounts(rows)
    IN  value_counts_head({counts[k] : k \in 1..Len(counts)}, 5)

\* Lines 697-731: the analysis texts after the script ran on the rows.  The
\* dictionary is emptied and filled only when there are negative rows.
AnalysisAfter(analysis, rows, top) ==
    IF rows # <<>> /\ negative_aspects_df(rows) # <<>>
    THEN [i \in 1..Len(top) |->
             [aspect |-> top[i],
              content |-> dynamic_output(top[i], aspect_negative_contexts(rows, top[i]))]]
    ELSE analysis

\* The ranking the script may find on the rows (none without negative rows).
Rankings(rows) ==
    IF negative_aspects_df(rows) # <<>> THEN TopNegativeAspects(rows) ELSE {<<>>}

\* The sentiments the random source may draw for the sample rows (line 511).
SampleDraws ==
    [1..Len(dummy_data) -> choice(<<"Positive", "Negative", "Neutral">>)]

\* Lines 461-746: one run of the report page script without a press of its
\* button.
RenderReport ==
    /\ pc = "idle"
    /\ ~pdf.generated
    /\ \E overall_sentiments \in SampleDraws :
        LET tables == TablesAfterFallback(overall_sentiments)
            rows == tables.processed_data.rows
            charts == ChartsAfter(chart_data, rows)
        IN  \E top \in Rankings(rows) :
                /\ session_state' = tables
                /\ chart_data' = charts
                /\ negative_analysis_data' = AnalysisAfter(negative_analysis_data, rows, top)
                /\ shown' = [page |-> "report",
                             warning |-> session_state.processed_data.is_none
                                         \/ session_state.summary_data.is_none,
                             sample |-> IsSample(tables)]
    /\ UNCHANGED <<earlier, pdf>>
    /\ UNCHANGED <<df, nps_col, faults, pc, run, all_sentences, sentence_map,
                   sentiment_results, batch_start, calls, fault, full_data,
                   summary_sentiment_map, summary_data, blend_log>>
    /\ UNCHANGED <<extractor_vars, report_vars>>

\* Lines 461-883: a press of "Generate & Download PDF Report" runs the
\* script again from the top, and the branch of the button hands the session
\* entries and the tables to generate_pdf_report.
GeneratePdf ==
    /\ pc = "idle"
    /\ ~pdf.generated
    /\ \E overall_sentiments \in SampleDraws :
        LET tables == TablesAfterFallback(overall_sentiments)
            rows == tables.processed_data.rows
            charts == ChartsAfter(chart_data, rows)
        IN  \E top \in Rankings(rows) :
                /\ session_state' = tables
                /\ chart_data' = charts
                /\ negative_analysis_data' = AnalysisAfter(negative_analysis_data, rows, top)
                /\ shown' = [page |-> "report",
                             warning |-> session_state.processed_data.is_none
                                         \/ session_state.summary_data.is_none,
                             sample |-> IsSample(tables)]
                /\ pdf' = [generated |-> TRUE,
                           chart_data |-> charts,
                           analysis_data |-> AnalysisAfter(negative_analysis_data, rows, top),
                           summary_data |-> tables.summary_data,
                           processed_df |-> tables.processed_data]
    /\ UNCHANGED earlier
    /\ UNCHANGED <<df, nps_col, faults, pc, run, all_sentences, sentence_map,
                   sentiment_results, batch_start, calls, fault, full_data,
                   summary_sentiment_map, summary_data, blend_log>>
    /\ UNCHANGED <<extractor_vars, report_vars>>

\* 2_Analysis.py, lines 26-29 and 223-234: one run of the analysis page
\* script without a press of its button shows the tables of the session.
RenderAnalysis ==
    /\ pc = "idle"
    /\ ~pdf.generated
    /\ shown' = [page |-> "analysis", warning |-> FALSE, sample |-> IsSample(session_state)]
    /\ UNCHANGED <<earlier, chart_data, negative_analysis_data, pdf>>
    /\ UNCHANGED <<pipeline_vars, extractor_vars, report_vars>>

\* One-sentence reviews: a positive sentence without an aspect, a negative
\* one with an aspect, a neutral one with two aspects.
SessionReviews ==
    {[fails |-> FALSE, sents |-> s, str |-> WholeText] :
        s \in {<<S1>>, <<S2>>, <<S3>>}}

SessionWorlds == Worlds(RowsOver(SessionReviews, {NaNCell}), 1, {})

\* 2_Analysis.py, lines 210-215: another file is uploaded.
Upload ==
    /\ pc = "idle"
    /\ ~pdf.generated
    /\ \E w \in SessionWorlds :
           /\ w.df # df
           /\ df' = w.df
           /\ nps_col' = w.nps_col
    /\ UNCHANGED <<faults, session_state, run, pc, all_sentences, sentence_map,
                   sentiment_results, batch_start, calls, fault, full_data,
                   summary_sentiment_map, summary_data, blend_log>>
    /\ UNCHANGED <<extractor_vars, report_vars, page_vars>>

NextSession ==
    \/ Next
    \/ Upload
    \/ RenderReport
    \/ RenderAnalysis
    \/ GeneratePdf

InitSession == InitWith(SessionWorlds, {"raise"})

\* Files are uploaded and processed and the pages are rendered in any
\* order, up to the first PDF.
SpecSession == InitSession /\ [][NextSession]_vars

\* The pipeline on one review of up to MaxSentences sentences drawn from
\* labels, confidences and external scores that reach the thresholds.
BlendSentences ==
    {Sentence(l, c, <<>>, 3, 0) : l \in {LABEL_0, LABEL_2}, c \in {Rat(1, 2), Rat(1, 1)}}
    \cup {Sentence(LABEL_1, Rat(1, 2), <<>>, 3, 0),
          Sentence(LABEL_2, Rat(1, 2), <<"Price", "Support">>, 3, 0)}

BlendCells == {NumCell(10, 1), NumCell(3, 1), NumCell(7, 1), TextCell}

InitBlend ==
    InitWith(Worlds(RowsOver(ReviewsOver(BlendSentences), BlendCells), 1, {"NPS"}),
             {"raise"})

SpecBlend == InitBlend /\ [][Next]_vars

\* The pipeline on datasets whose NPS cells are numbers at and around 9 and
\* 6, strings and missing values; the NPS column, the review column or no
\* column is selected.
NpsCells ==
    {NumCell(10, 1), NumCell(9, 1), NumCell(17, 2), NumCell(13, 2), NumCell(6, 1),
     NumCell(3, 1), StrCell(9, 1), TextCell, NaNCell}

NpsReviews ==
    {[fails |-> FALSE, sents |-> s, str |-> WholeText] : s \in {<<>>, <<S2>>}}

InitNps ==
    InitWith(Worlds(RowsOver(NpsReviews, NpsCells), MaxReviews, {"NPS", "Review"}),
             {"raise"})

SpecNps == InitNps /\ [][Next]_vars

\* The pipeline on one one-sentence review, the classifier answering any
\* of a range of raw labels.
Stems ==
    {<<"L", "A", "B", "E", "L", "_">>,
     <<"l", "a", "b", "e", "l", "_">>,
     <<"L", "a", "b", "E", "l", "_">>}

RawLabels ==
    {pre \o st \o <<d>> \o suf :
        pre \in {<<>>, <<"x">>}, st \in Stems, d \in {"0", "1", "2", "3"},
        suf \in {<<>>, <<"0">>, <<"x">>}}
    \cup {<<>>, <<"p", "o", "s">>, <<"L", "A", "B", "E", "L">>,
          LABEL_1 \o LABEL_0, LABEL_2 \o LABEL_1}

LabelReviews ==
    {[fails |-> FALSE, sents |-> <<Sentence(l, Rat(1, 1), <<"Price">>, 3, 0)>>,
      str |-> WholeText] : l \in RawLabels}

InitLabels == InitWith(Worlds(RowsOver(LabelReviews, {NaNCell}), 1, {}), {"raise"})

SpecLabels == InitLabels /\ [][Next]_vars

\* The pipeline with a classifier that may also answer fewer results than
\* the inputs it was given.
InitFaulty == InitWith(MainWorlds, {"raise", "short"})

SpecFaulty == InitFaulty /\ [][Next]_vars

(***************************************************************************)
(* What the properties are stated with: the dataset's sentences and their  *)
(* labels, read off the dataset and not off the pipeline's variables.      *)
(***************************************************************************)
CasePairs ==
    {<<"l", "L">>, <<"a", "A">>, <<"b", "B">>, <<"e", "E">>,
     <<"x", "X">>, <<"p", "P">>, <<"o", "O">>, <<"s", "S">>}

EqIgnoreCase(c, d) == c = d \/ <<c, d>> \in CasePairs \/ <<d, c>> \in CasePairs

\* pat occurs in s, letter case ignored.
Occurs(pat, s) ==
    \E k \in 1..(Len(s) - Len(pat) + 1) :
        \A j \in 1..Len(pat) : EqIgnoreCase(s[k + j - 1], pat[j])

\* s is pat, letter case ignored.
IsLabel(pat, s) == Len(s) = Len(pat) /\ Occurs(pat, s)

\* The canonical label of a raw label that is LABEL_0, LABEL_1 or LABEL_2.
Canon(lab) ==
    IF IsLabel(LABEL_0, lab) THEN "Negative"
    ELSE IF IsLabel(LABEL_2, lab) THEN "Positive"
    ELSE "Neutral"

Numeric(lab) ==
    IF Canon(lab) = "Positive" THEN 1 ELSE IF Canon(lab) = "Negative" THEN -1 ELSE 0

\* The sentences of review k (1-based).
SentencesOf(k) == Sentences(df[k].review)

\* The sentences of the first n reviews, in order, each with its review number.
RECURSIVE Segmented(_)
Segmented(n) ==
    IF n = 0 THEN <<>>
    ELSE Segmented(n - 1) \o
         [j \in 1..Len(SentencesOf(n)) |-> [review_no |-> n, s |-> SentencesOf(n)[j]]]

RECURSIVE Flat(_)
Flat(batches) == IF batches = <<>> THEN <<>> ELSE Head(batches) \o Flat(Tail(batches))

Range(f) == {f[x] : x \in DOMAIN f}

\* The weight of a sentence in its review's mean: 1, or with per_aspect its
\* number of aspects when it has any.
Weight(s, per_aspect) == IF per_aspect /\ Len(s.asp) > 0 THEN Len(s.asp) ELSE 1

RECURSIVE WSum(_, _)
WSum(sents, per_aspect) ==
    IF sents = <<>> THEN Rat(0, 1)
    ELSE RAdd(Rat(Weight(Head(sents), per_aspect) * Numeric(Head(sents).lab)
                  * Head(sents).conf.num, Head(sents).conf.den),
              WSum(Tail(sents), per_aspect))

RECURSIVE WCount(_, _)
WCount(sents, per_aspect) ==
    IF sents = <<>> THEN 0
    ELSE Weight(Head(sents), per_aspect) + WCount(Tail(sents), per_aspect)

ExpectedMean(k, per_aspect) ==
    IF SentencesOf(k) = <<>> THEN Rat(0, 1)
    ELSE RDivInt(WSum(SentencesOf(k), per_aspect), WCount(SentencesOf(k), per_aspect))

\* The cell the external score of review k is read from, whether it parses
\* as a float, and the nps_val it maps to.
ScoreCell(k) == IF nps_col = "NPS" THEN df[k].nps ELSE TextCell
Parses(k) == nps_col # None /\ (ScoreCell(k).kind \in {"num", "nan"} \/ ScoreCell(k).numeric)
ExpectedNps(k) ==
    LET v == ScoreCell(k).val
    IN  IF ~Parses(k) \/ ScoreCell(k).kind = "nan" THEN 0
        ELSE IF v.num >= 9 * v.den THEN 1
        ELSE IF v.num <= 6 * v.den THEN -1
        ELSE 0

\* The detail rows of the first n reviews.
ExpectedRows(k, s) ==
    [a \in 1..Len(s.asp) |->
        [Review_No |-> k,
         Review_Text |-> df[k].review,
         Aspect |-> s.asp[a],
         Aspect_Sentiment |-> Canon(s.lab),
         Aspect_Sentiment_Score |-> s.conf,
         Aspect_Context |-> [s EXCEPT !.pad = 0]]]

RECURSIVE ExpectedDetail(_)
ExpectedDetail(segs) ==
    IF segs = <<>> THEN <<>>
    ELSE ExpectedRows(Head(segs).review_no, Head(segs).s) \o ExpectedDetail(Tail(segs))

(***************************************************************************)
(* Properties.                                                             *)
(***************************************************************************)

C2_OncePerSentence ==
    \A k \in 1..Len(blend_log) :
        REq(blend_log[k].model_score, ExpectedMean(k, FALSE))

\* C2, amended: the model score of every review is the mean of
\* (numeric label x confidence) over its observations, a sentence with no
\* aspect giving one observation and a sentence with a >= 1 aspects giving a.
C2_OncePerAspect ==
    \A k \in 1..Len(blend_log) :
        /\ REq(blend_log[k].model_score, ExpectedMean(k, TRUE))
        /\ Len(Sentiments(k - 1)) = WCount(SentencesOf(k), TRUE)

\* A review's score was computed where the two means differ.
C2_Witness ==
    /\ pc = "return"
    /\ \E k \in 1..Len(blend_log) :
        /\ ~REq(ExpectedMean(k, TRUE), ExpectedMean(k, FALSE))
        /\ Len(SentencesOf(k)) = 2

\* C3 as stated: a review with zero sentences has blended score 0 and final
\* sentiment Neutral, whatever its external score.
C3_ZeroSentencesNeutral ==
    \A k \in 1..Len(blend_log) :
        SentencesOf(k) = <<>> =>
            /\ blend_log[k].blended_score.num = 0
            /\ summary_data[k].Final_Sentiment = "Neutral"

\* C3, amended: a review with zero sentences has model score 0 and blended
\* score 0.4*nps_val: 0 and Neutral when no score column is selected, the
\* value does not parse or it lies strictly between 6 and 9; 0.4 and
\* Positive when the value is >= 9; -0.4 and Negative when it is <= 6.
C3_ZeroSentencesFollowNps ==
    \A k \in 1..Len(blend_log) :
        SentencesOf(k) = <<>> =>
            LET b == blend_log[k].blended_score
                final == summary_data[k].Final_Sentiment
            IN  /\ blend_log[k].model_score.num = 0
                /\ 10 * b.num = 4 * ExpectedNps(k) * b.den
                /\ ExpectedNps(k) = 0 => final = "Neutral"
                /\ ExpectedNps(k) = 1 => final = "Positive"
                /\ ExpectedNps(k) = -1 => final = "Negative"

\* A review with zero sentences and an external score >= 9 got Positive.
C3_Witness ==
    /\ pc = "return"
    /\ \E k \in 1..Len(blend_log) :
        /\ SentencesOf(k) = <<>>
        /\ ExpectedNps(k) = 1
        /\ summary_data[k].Final_Sentiment = "Positive"

\* C4: nps_val is +1 when the external score parses as a float >= 9, -1
\* when it parses as a float <= 6 and 0 otherwise; with no column selected
\* or a value that does not parse, nps_val is 0 and the stored NPS Score is
\* null, and the run goes on: the summary has a row for every review and
\* only a raising classifier ends a run in error.
C4_NpsVal ==
    /\ \A k \in 1..Len(blend_log) :
        /\ blend_log[k].nps_val = ExpectedNps(k)
        /\ ~Parses(k) =>
            /\ blend_log[k].nps_val = 0
            /\ summary_data[k].NPS_Score = PyNone
    /\ pc = "return" => Len(summary_data) = total_rows /\ Len(blend_log) = total_rows
    /\ pc = "error" => fault = "raise"

\* The first review's score did not parse, and the second review's score of
\* 9 or more was mapped to +1.
C4_Witness ==
    /\ pc = "return"
    /\ total_rows = 2
    /\ nps_col = "NPS"
    /\ ~Parses(1)
    /\ summary_data[1].NPS_Score = PyNone
    /\ blend_log[2].nps_val = 1

\* C5: after process_reviews the summary table has one row per review, row k
\* carrying Review No. k and the text of input row k, also for reviews with
\* zero sentences or zero aspects; the table stored in the session is such
\* a table.
C5_SummaryRows ==
    /\ pc = "return" =>
        /\ Len(summary_data) = total_rows
        /\ \A k \in 1..total_rows :
            /\ summary_data[k].Review_No = k
            /\ summary_data[k].Review_Text = df[k].review
    /\ ~session_state.summary_data.is_none =>
        /\ Len(session_state.summary_data.rows) = total_rows
        /\ \A k \in 1..total_rows :
            /\ session_state.summary_data.rows[k].Review_No = k
            /\ session_state.summary_data.rows[k].Review_Text = df[k].review

\* Two different reviews, the first with zero sentences, the second with a
\* sentence and no aspect at all, were summarised.
C5_Witness ==
    /\ pc = "return"
    /\ total_rows = 2
    /\ df[1].review # df[2].review
    /\ SentencesOf(1) = <<>>
    /\ SentencesOf(2) # <<>>
    /\ full_data = <<>>
    /\ Len(summary_data) = 2

\* C6: the detail table holds exactly one row per (sentence, aspect) pair,
\* in review order, with the label and score of the sentence and the Review
\* No. of its review; a sentence with no aspect gives no row, and its
\* observation is in its review's list.
C6_DetailRows ==
    pc \in {"summary", "return"} =>
        /\ full_data = ExpectedDetail(Segmented(total_rows))
        /\ \A k \in 1..total_rows :
            \A j \in 1..Len(SentencesOf(k)) :
                SentencesOf(k)[j].asp = <<>> =>
                    [sentiment |-> Canon(SentencesOf(k)[j].lab),
                     score |-> SentencesOf(k)[j].conf] \in Range(Sentiments(k - 1))

\* A review with a sentence of two aspects and a sentence of none went
\* through.
C6_Witness ==
    /\ pc = "return"
    /\ \E k \in 1..total_rows :
        /\ \E j \in 1..Len(SentencesOf(k)) : SentencesOf(k)[j].asp = <<>>
        /\ \E j \in 1..Len(SentencesOf(k)) : Len(SentencesOf(k)[j].asp) = 2
    /\ Len(full_data) >= 2

\* C7 as stated: LABEL_0, LABEL_1, LABEL_2 in any letter case map to
\* Negative, Neutral, Positive and every other raw label maps to Neutral.
C7_OthersNeutral ==
    \A r \in 1..Len(full_data) :
        full_data[r].Aspect_Sentiment = Canon(full_data[r].Aspect_Context.lab)

\* C7, amended: a raw label that contains LABEL_0 (letter case ignored) maps
\* to Negative; otherwise one that contains LABEL_1 maps to Neutral;
\* otherwise one that contains LABEL_2 maps to Positive; every other raw
\* label maps to Neutral; the result is always a canonical label.
C7_ByContainment ==
    \A r \in 1..Len(full_data) :
        LET lab == full_data[r].Aspect_Context.lab
            got == full_data[r].Aspect_Sentiment
        IN  /\ got \in {"Negative", "Neutral", "Positive"}
            /\ Occurs(LABEL_0, lab) => got = "Negative"
            /\ ~Occurs(LABEL_0, lab) /\ Occurs(LABEL_1, lab) => got = "Neutral"
            /\ ~Occurs(LABEL_0, lab) /\ ~Occurs(LABEL_1, lab) /\ Occurs(LABEL_2, lab)
                   => got = "Positive"
            /\ ~Occurs(LABEL_0, lab) /\ ~Occurs(LABEL_1, lab) /\ ~Occurs(LABEL_2, lab)
                   => got = "Neutral"
            /\ IsLabel(LABEL_0, lab) => got = "Negative"
            /\ IsLabel(LABEL_1, lab) => got = "Neutral"
            /\ IsLabel(LABEL_2, lab) => got = "Positive"

\* A raw label that contains label_2 in lower case between other characters
\* was mapped to Positive.
C7_Witness ==
    \E r \in 1..Len(full_data) :
        /\ full_data[r].Aspect_Context.lab = <<"x", "l", "a", "b", "e", "l", "_", "2", "x">>
        /\ full_data[r].Aspect_Sentiment = "Positive"

\* C8: the classifier is called on consecutive chunks of at most BATCH_SIZE
\* sentences in input order, every sentence once; with one result per input,
\* result i is the answer on sentence i, entry i of sentence_map is the i-th
\* segmented sentence with its review, and every detail row carries the
\* answer on its own sentence.
C8_Batches ==
    /\ \A c \in 1..Len(calls) : Len(calls[c]) >= 1 /\ Len(calls[c]) <= BATCH_SIZE
    /\ Len(Flat(calls)) <= Len(all_sentences)
    /\ Flat(calls) = SubSeq(all_sentences, 1, Len(Flat(calls)))
    /\ pc \in {"build", "summary", "return"} =>
        LET segs == Segmented(total_rows)
        IN  /\ Flat(calls) = all_sentences
            /\ Len(sentiment_results) = Len(segs)
            /\ Len(sentence_map) = Len(segs)
            /\ \A n \in 1..Len(segs) :
                /\ sentiment_results[n] = [label |-> segs[n].s.lab, score |-> segs[n].s.conf]
                /\ sentence_map[n] = <<segs[n].review_no - 1,
                                       df[segs[n].review_no].review,
                                       [segs[n].s EXCEPT !.pad = 0]>>
    /\ pc \in {"summary", "return"} =>
        \A r \in 1..Len(full_data) :
            /\ full_data[r].Aspect_Sentiment = Canon(full_data[r].Aspect_Context.lab)
            /\ full_data[r].Aspect_Sentiment_Score = full_data[r].Aspect_Context.conf

\* Three different sentences were classified in two calls and paired.
C8_Witness ==
    /\ pc = "summary"
    /\ Len(calls) = 2
    /\ Len(all_sentences) = 3
    /\ Cardinality(Range(all_sentences)) = 3
    /\ Len(full_data) >= 1

\* C9: when the classifier fails on a batch (it raises or answers fewer
\* results than inputs), process_reviews never returns tables in which a
\* sentence is dropped or paired with the result of another sentence, and
\* the session's tables are left as they were.
C9_FailureEndsRun ==
    /\ pc = "return" =>
        /\ full_data = ExpectedDetail(Segmented(total_rows))
        /\ \A k \in 1..total_rows :
            Len(Sentiments(k - 1)) = WCount(SentencesOf(k), TRUE)
    /\ (pc = "idle" /\ run = 1 /\ fault # "none") =>
        session_state = [processed_data |-> NoTable, summary_data |-> NoTable]

\* C10: every text handed to the classifier has at most 512 characters and
\* is the first min(len, 512) characters of the segmented sentence at its
\* position; once classification is over, as many texts were classified as
\* sentences were segmented.
C10_Truncation ==
    LET sent == Flat(calls)
        segs == Segmented(total_rows)
    IN  /\ Len(sent) <= Len(segs)
        /\ \A n \in 1..Len(sent) :
            /\ Length(sent[n]) <= 512
            /\ Length(sent[n]) = Min(Length(segs[n].s), 512)
            /\ sent[n].len = Min(segs[n].s.len, 512)
            /\ sent[n].lab = segs[n].s.lab
            /\ sent[n].conf = segs[n].s.conf
            /\ sent[n].asp = segs[n].s.asp
        /\ pc \in {"build", "summary", "return"} => Len(sent) = Len(segs)

\* A sentence of more than 512 characters was cut to 512 and classified.
C10_Witness ==
    /\ pc = "build"
    /\ \E n \in 1..Len(Flat(calls)) :
        /\ Length(Segmented(total_rows)[n].s) > 512
        /\ Length(Flat(calls)[n]) = 512
        /\ sentiment_results[n].label = Segmented(total_rows)[n].s.lab

\* The positions of sentence_map that belong to review k (1-based), and the
\* number of positions that belong to earlier reviews.
PositionsOf(k) == {p \in 1..Len(sentence_map) : sentence_map[p][1] = k - 1}
PositionsBefore(k) == Cardinality({p \in 1..Len(sentence_map) : sentence_map[p][1] < k - 1})

\* C11: a review whose segmentation fails contributes exactly one sentence,
\* its whole string-coerced value (cut to 512 characters for the classifier,
\* stripped as its context); the failure does not end the run (only a
\* classifier exception does); every other review contributes exactly its
\* own sentences, in order; and a run whose classifier answered stores a
\* summary row for every review.
C11_FailureIsOneSentence ==
    (pc # "idle" \/ run > 0) =>
        /\ Len(all_sentences) = Len(sentence_map)
        /\ \A k \in 1..Len(df) :
            LET review == df[k].review
            IN  IF review.fails
                THEN /\ Cardinality(PositionsOf(k)) = 1
                     /\ \A p \in PositionsOf(k) :
                         /\ sentence_map[p] = <<k - 1, review, [review.str EXCEPT !.pad = 0]>>
                         /\ all_sentences[p].lab = review.str.lab
                         /\ all_sentences[p].len = Min(review.str.len, 512)
                         /\ Length(all_sentences[p]) = Min(Length(review.str), 512)
                ELSE /\ Cardinality(PositionsOf(k)) = Len(review.sents)
                     /\ \A j \in 1..Len(review.sents) :
                         sentence_map[PositionsBefore(k) + j] =
                             <<k - 1, review, [review.sents[j] EXCEPT !.pad = 0]>>
        /\ pc = "error" => fault = "raise"
        /\ (pc = "idle" /\ fault = "none") =>
            /\ ~session_state.summary_data.is_none
            /\ Len(session_state.summary_data.rows) = Len(df)

\* A run over a review whose segmentation failed and a review of at least
\* one sentence has ended, and both have their summary row.
C11_Witness ==
    /\ pc = "idle"
    /\ run = 1
    /\ fault = "none"
    /\ Len(df) = 2
    /\ df[1].review.fails
    /\ ~df[2].review.fails
    /\ Len(df[2].review.sents) >= 1
    /\ Cardinality(PositionsOf(1)) = 1
    /\ Len(session_state.summary_data.rows) = 2

\* A phrase of one word: no white space in it.
OneWord(a) == \A k \in 1..Len(a) : a[k] # " "

\* C12: extract_aspects_from_sentence returns at most 2 phrases, pairwise
\* distinct, none of them a single word of 2 characters or fewer.
C12_AtMostTwoDistinctPhrases ==
    xpc = "returned" =>
        /\ Len(extracted) <= 2
        /\ \A i, j \in 1..Len(extracted) : i # j => extracted[i] # extracted[j]
        /\ \A i \in 1..Len(extracted) : ~(OneWord(extracted[i]) /\ Len(extracted[i]) <= 2)

\* The call returned 2 phrases out of 3 distinct candidates of more than 2
\* characters.
C12_Witness ==
    /\ xpc = "returned"
    /\ Len(extracted) = 2
    /\ Len(potential_aspects) = 3
    /\ \A i, j \in 1..3 : i # j => potential_aspects[i] # potential_aspects[j]
    /\ \A i \in 1..3 : Len(potential_aspects[i]) > 2

\* The pattern loops are over and the analysis lines are written.
Analysed == rpc \in {"recommend", "general", "number", "returned"}

\* How many of the matches were counted under a tuple.
TallyOf(tuple) == Cardinality({k \in 1..Len(match_log) : match_log[k].result = tuple})

\* C13: the primary pattern is the tuple with the highest tally; among the
\* tuples of that tally it is the one whose first match came first, the
\* matches being taken by category, then pattern, then the order of the
\* matcher; the dominant category is the category of the primary tuple.
C13_PrimaryIsFirstTop ==
    (Analysed /\ match_log # <<>>) =>
        /\ \A i, j \in 1..Len(match_log) : i < j =>
               LET a == match_log[i]
                   b == match_log[j]
               IN  \/ a.cat_idx < b.cat_idx
                   \/ a.cat_idx = b.cat_idx /\ a.pat_idx < b.pat_idx
                   \/ /\ a.cat_idx = b.cat_idx /\ a.pat_idx = b.pat_idx
                      /\ a.end < b.end \/ (a.end = b.end /\ a.start < b.start)
        /\ \E k \in 1..Len(match_log) :
               /\ primary_pattern_info = match_log[k].result
               /\ \A j \in 1..Len(match_log) :
                      TallyOf(match_log[j].result) <= TallyOf(match_log[k].result)
               /\ \A j \in 1..(k - 1) :
                      TallyOf(match_log[j].result) < TallyOf(match_log[k].result)
        /\ dominant_category = primary_pattern_info.category_name

\* Two tuples of two categories share the highest tally, and the analysis
\* is written.
C13_Witness ==
    /\ Analysed
    /\ \E i, j \in 1..Len(match_log) :
           /\ i < j
           /\ match_log[i].result.category_name # match_log[j].result.category_name
           /\ TallyOf(match_log[i].result) = TallyOf(match_log[j].result)
           /\ \A k \in 1..Len(match_log) :
                  TallyOf(match_log[k].result) <= TallyOf(match_log[i].result)

\* How many matches the patterns of a category had.
MatchesIn(category_name) ==
    Cardinality({k \in 1..Len(match_log) :
                    match_log[k].result.category_name = category_name})

\* The tuples of the highest tally.
TopTuples ==
    {match_log[k].result : k \in {i \in 1..Len(match_log) :
        \A j \in 1..Len(match_log) :
            TallyOf(match_log[j].result) <= TallyOf(match_log[i].result)}}

\* C14 as stated: when a pattern matched, no category has more matches than
\* the dominant category.
C14_MostMatches ==
    (Analysed /\ match_log # <<>>) =>
        \A c \in 1..Len(PROBLEM_CATEGORIES) :
            MatchesIn(PROBLEM_CATEGORIES[c].name) <= MatchesIn(dominant_category)

\* C14, amended: when a pattern matched, the dominant category is the
\* category of a tuple of the highest tally, and the first category of the
\* taxonomy that has such a tuple; it need not have the most matches.
C14_CategoryOfTopTuple ==
    (Analysed /\ match_log # <<>>) =>
        \E c \in 1..Len(PROBLEM_CATEGORIES) :
            /\ dominant_category = PROBLEM_CATEGORIES[c].name
            /\ \E t \in TopTuples : t.category_name = PROBLEM_CATEGORIES[c].name
            /\ \A b \in 1..(c - 1) :
                   \A t \in TopTuples : t.category_name # PROBLEM_CATEGORIES[b].name

\* The analysis is written and a category other than the dominant one has
\* more matches than it.
C14_Witness ==
    /\ Analysed
    /\ match_log # <<>>
    /\ \E c \in 1..Len(PROBLEM_CATEGORIES) :
           MatchesIn(PROBLEM_CATEGORIES[c].name) > MatchesIn(dominant_category)

\* C15: when a pattern matched, the analysis of the report has at least 4
\* lines, whatever the number of secondary lines.
C15_FourAnalysisLines ==
    (rpc = "returned" /\ match_log # <<>>) => Len(report.analysis_text) >= 4

\* The words occur in the context, one after the other.
Says(context, words) == Contains(words, [k \in 1..Len(context) |-> context[k].text])

\* C19: when every negative context says "too expensive" or "overpriced",
\* the dominant category is cost_value.
C19_ExpensiveIsCostValue ==
    (/\ Analysed
     /\ negative_contexts # <<>>
     /\ \A k \in 1..Len(negative_contexts) :
            \/ Says(negative_contexts[k], <<"too", "expensive">>)
            \/ Says(negative_contexts[k], <<"overpriced">>))
        => dominant_category = "cost_value"

\* C20: on the one context "The subscription cost is way too expensive,
\* it's a huge fee." with the aspect "cost", a pattern of cost_value matches.
C20_CostMatchInExample ==
    (/\ Analysed
     /\ aspect_name = "cost"
     /\ negative_contexts = <<Contexts.way_too_expensive>>)
        => \E k \in 1..Len(match_log) : match_log[k].result.category_name = "cost_value"

\* C16: when there is a dominant category, the report has exactly 4
\* recommendations, whatever random.choice draws: the first from a template
\* of the category under the outcome key of the primary pattern, or the
\* one-line generic text if the category has none; the other three from
\* general templates of the category; no template twice.
C16_FourRecommendations ==
    (rpc = "returned" /\ dominant_category # None) =>
        LET recs == report.recommendations_text
            phrases == Category(dominant_category).recommendation_phrases
            keyed == {k \in 1..Len(phrases) :
                         phrases[k].key = primary_pattern_info.pattern_analysis_key}
            general == {k \in 1..Len(phrases) : phrases[k].key = None}
        IN  /\ Len(recs) = 4
            /\ IF keyed # {}
               THEN \E k \in keyed : recs[1].text = phrases[k].template.text
               ELSE recs[1].text = "1. **{fix_verb}** the core issues contributing to the **{primary_problem_adj}** sentiment around **{aspect_display_name}**, focusing on **{area_of_focus}**."
            /\ \A i \in 2..4 : \E k \in general : recs[i].text = phrases[k].template.text
            /\ \A i, j \in 1..4 : i # j => recs[i].text # recs[j].text

\* A report with a dominant category whose first recommendation is from a
\* template under the primary outcome key and whose second and third are
\* from general templates drawn against their order in the taxonomy.
C16_Witness ==
    /\ rpc = "returned"
    /\ dominant_category # None
    /\ Len(report.recommendations_text) = 4
    /\ \E k \in 1..Len(Category(dominant_category).recommendation_phrases) :
           LET rec == Category(dominant_category).recommendation_phrases[k]
           IN  /\ rec.key = primary_pattern_info.pattern_analysis_key
               /\ rec.template.text = report.recommendations_text[1].text
    /\ report.recommendations_text[2].ordinal > report.recommendations_text[3].ordinal

\* C17: every recommendation line of a report begins with an ordinal; a
\* line made without one bears its position in the list, counted from 1,
\* and a line made with one is left as it is.
C17_LinesNumbered ==
    rpc = "returned" =>
        LET recs == report.recommendations_text
        IN  /\ Len(recs) = Len(recommendation_lines)
            /\ \A i \in 1..Len(recs) :
                   /\ recs[i].ordinal >= 1
                   /\ recommendation_lines[i].ordinal = 0 => recs[i].ordinal = i
                   /\ recommendation_lines[i].ordinal # 0 => recs[i] = recommendation_lines[i]

\* A report of 4 recommendation lines, one of which bears an ordinal that is
\* not its position.
C17_Witness ==
    /\ rpc = "returned"
    /\ Len(report.recommendations_text) = 4
    /\ \E i \in 1..4 : report.recommendations_text[i].ordinal # i

\* The positions of the parsed text whose lemma is counted (line 198).
CountedAt ==
    {k \in 1..Len(doc) :
        ~is_stop(doc[k]) /\ ~is_punct(doc[k]) /\ doc[k].lemma # aspect_name}

\* How often a lemma is counted.
Occurrences(word) == Cardinality({k \in CountedAt : doc[k].lemma = word})

\* The counted positions that hold a known problem word.
KnownAt ==
    {k \in CountedAt :
        In(doc[k].lemma, NEGATIVE_ADJECTIVES) \/ In(doc[k].lemma, UNIVERSAL_PROBLEMS)}

\* C18: generate_dynamic_content_universal raises on no pool of negative
\* contexts, the empty one included; every turn of its loop over the
\* general templates adds a recommendation, so that it returns; and the
\* report it returns has an analysis and recommendations that are not
\* empty.  When no pattern matched, the analysis has 3 lines: if a known
\* problem word is counted, the generic text that names the most frequent
\* one (of several, the first seen); otherwise the fixed text on diverse
\* feedback.  In both cases the recommendations are the fixed list of 5
\* lines.
C18_AlwaysAReport ==
    /\ rpc # "raised"
    /\ rpc = "general" =>
           /\ available_general_recs # <<>>
           /\ \A k \in 1..Len(available_general_recs) :
                  available_general_recs[k].template.text \notin used_rec_templates
    /\ rpc = "returned" =>
           /\ report.analysis_text # <<>>
           /\ report.recommendations_text # <<>>
           /\ match_log = <<>> =>
                  /\ Len(report.analysis_text) = 3
                  /\ IF KnownAt # {}
                     THEN /\ report.analysis_text[1].text = "The primary concern for **{aspect_display_name}** is its **{primary_problem}** aspect, often related to **{primary_subject}**."
                          /\ \E k \in KnownAt :
                                 /\ report.analysis_text[1].args.primary_problem = doc[k].lemma
                                 /\ \A j \in KnownAt :
                                        Occurrences(doc[j].lemma) <= Occurrences(doc[k].lemma)
                                 /\ \A j \in KnownAt : j < k =>
                                        Occurrences(doc[j].lemma) < Occurrences(doc[k].lemma)
                     ELSE report.analysis_text[1].text = "Negative feedback for **{aspect_name}** is diverse, without clear dominant problem phrases or keywords."
                  /\ Len(report.recommendations_text) = 5
                  /\ \A i \in 1..5 : report.recommendations_text[i].ordinal = i
                  /\ report.recommendations_text[1].text = "1. **Conduct a focused root cause analysis** on all negative feedback for this aspect to pinpoint critical areas for improvement."
                  /\ report.recommendations_text[2].text = "2. **Implement a structured feedback mechanism** to gather more specific and actionable insights from users."
                  /\ report.recommendations_text[3].text = "3. **Prioritize corrective actions** based on the frequency and severity of reported problems to allocate resources effectively."
                  /\ report.recommendations_text[4].text = "4. **Engage with key users** who provided negative feedback to validate identified problems and potential solutions."
                  /\ report.recommendations_text[5].text = "5. **{random.choice(ACTION_VERBS).title()}** an internal workshop with relevant teams to brainstorm solutions for **{aspect_display_name}**'s negative perception."

\* A report on a pool without a match in which the problem word named is
\* not the first problem word of the contexts.
C18_Witness ==
    /\ rpc = "returned"
    /\ match_log = <<>>
    /\ KnownAt # {}
    /\ \E k \in KnownAt :
           /\ \A j \in KnownAt : k <= j
           /\ report.analysis_text[1].args.primary_problem # doc[k].lemma

\* The letters.
Alphabet == {LowerLetters[k] : k \in 1..26} \cup {UpperLetters[k] : k \in 1..26}

\* The token at position i continues a phrase: it is tagged as a noun or an
\* adjective, is alphabetic and is no stop word.
InPhrase(i) ==
    LET t == tagged_words[i]
    IN  /\ t.tag[1] \in {"N", "J"}
        /\ \A k \in 1..Len(t.word) : t.word[k] \in Alphabet
        /\ t.word \notin STOP_WORDS

\* The maximal runs <<first, last>> of the positions `within` among the
\* first n tokens; with open = FALSE a run that ends at token n is left out.
MaximalRuns(within, n, open) ==
    {r \in within \X within :
        /\ r[1] <= r[2]
        /\ \A i \in r[1]..r[2] : i \in within
        /\ (r[1] - 1) \notin within
        /\ IF r[2] = n THEN open ELSE (r[2] + 1) \notin within}

\* The words of a run, title-cased and joined by spaces.
PhraseOf(r) ==
    title(join([k \in 1..(r[2] - r[1] + 1) |-> tagged_words[r[1] + k - 1].word]))

\* C22: the candidate phrases are, in order, the maximal runs of consecutive
\* tokens that are noun- or adjective-tagged, alphabetic and no stop words:
\* while the sentence is scanned there is a candidate for every run that has
\* ended and the running phrase is the run that has not, at the return the
\* candidates are the title-cased runs, the trailing one included, and
\* every word of a returned aspect is such a token of the sentence.
C22_MaximalRuns ==
    xpc \in {"scan", "returned"} =>
        LET within == {i \in 1..token_i : InPhrase(i)}
            runs == MaximalRuns(within, token_i, xpc = "returned")
            running == MaximalRuns(within, token_i, TRUE) \ runs
        IN  /\ Len(potential_aspects) = Cardinality(runs)
            /\ xpc = "returned" => \A r \in runs :
                potential_aspects[Cardinality({q \in runs : q[1] <= r[1]})] = PhraseOf(r)
            /\ xpc = "scan" =>
                IF running = {}
                THEN current_aspect_phrase = <<>>
                ELSE \A r \in running :
                        current_aspect_phrase =
                            [k \in 1..(r[2] - r[1] + 1) |-> tagged_words[r[1] + k - 1].word]
            /\ \A n \in 1..Len(extracted) :
                LET words == split(extracted[n])
                IN  \A w \in 1..Len(words) : \E i \in within :
                        words[w] = title(tagged_words[i].word)

\* A sentence of five tokens was scanned in which a stop word and a
\* non-alphabetic noun each ended a phrase and the last phrase ran to the
\* end of the sentence: three candidates.
C22_Witness ==
    /\ xpc = "returned"
    /\ Len(tagged_words) = 5
    /\ tagged_words[2].word \in STOP_WORDS
    /\ startswith(tagged_words[2].tag, "J")
    /\ ~isalpha(tagged_words[4].word)
    /\ startswith(tagged_words[4].tag, "N")
    /\ InPhrase(1) /\ InPhrase(3) /\ InPhrase(5)
    /\ Len(potential_aspects) = 3
    /\ potential_aspects[3] = PhraseOf(<<5, 5>>)

\* The candidates that pass the filter of line 84.
Filtered == SelectSeq(potential_aspects, LAMBDA a : Len(split(a)) > 1 \/ Len(a) > 2)
\* In a list of phrases: how often p occurs, where it occurs first, and the
\* distinct phrases.
Occurs_n(list, p) == Cardinality({k \in 1..Len(list) : list[k] = p})
FirstSeen(list, p) == CHOOSE k \in 1..Len(list) :
                          list[k] = p /\ \A j \in 1..(k - 1) : list[j] # p
Phrases(list) == {list[k] : k \in 1..Len(list)}

\* C23 as stated: the returned aspects are the first two distinct phrases of
\* the filtered candidates in first-seen order.
C23_FirstSeenOrder ==
    xpc = "returned" =>
        LET list == Filtered
        IN  /\ Len(extracted) = Min(2, Cardinality(Phrases(list)))
            /\ \A n \in 1..Len(extracted) :
                /\ extracted[n] \in Phrases(list)
                /\ Cardinality({q \in Phrases(list) :
                       FirstSeen(list, q) < FirstSeen(list, extracted[n])}) = n - 1

\* In a list of phrases p is ranked ahead of q: it occurs more often, or as
\* often and earlier.
Ahead(list, p, q) ==
    \/ Occurs_n(list, p) > Occurs_n(list, q)
    \/ Occurs_n(list, p) = Occurs_n(list, q) /\ FirstSeen(list, p) < FirstSeen(list, q)

\* C23, amended: the returned aspects are the first two distinct phrases of
\* the filtered candidates ranked by the number of their occurrences in the
\* sentence, phrases that occur equally often in first-seen order; when no
\* phrase occurs twice this is the first-seen order.
C23_ByCountThenFirstSeen ==
    xpc = "returned" =>
        LET list == Filtered
        IN  /\ Len(extracted) = Min(2, Cardinality(Phrases(list)))
            /\ \A n \in 1..Len(extracted) :
                /\ extracted[n] \in Phrases(list)
                /\ Cardinality({q \in Phrases(list) : Ahead(list, q, extracted[n])}) = n - 1
            /\ (\A p \in Phrases(list) : Occurs_n(list, p) = 1) =>
                \A n \in 1..Len(extracted) : extracted[n] = list[n]

\* A phrase that occurs twice is returned ahead of a phrase seen before it.
C23_Witness ==
    /\ xpc = "returned"
    /\ Len(extracted) = 2
    /\ Occurs_n(Filtered, extracted[1]) = 2
    /\ Occurs_n(Filtered, extracted[2]) = 1
    /\ FirstSeen(Filtered, extracted[2]) < FirstSeen(Filtered, extracted[1])

\* The tokens of a counted match, its category, and what its span holds.
SpanOf(m) == m.start..(m.end - 1)
CategoryOf(m) == PROBLEM_CATEGORIES[m.cat_idx].name
HasLemma(m, lemmas) == \E k \in SpanOf(m) : doc[k].lemma \in lemmas
HasPhrase(m, words) ==
    \E k \in m.start..(m.end - Len(words)) :
        \A j \in 1..Len(words) : doc[k + j - 1].text = words[j]
KnownAdjective(m) ==
    \E k \in SpanOf(m) : doc[k].pos = "ADJ" /\ In(doc[k].lemma, NEGATIVE_ADJECTIVES)
KnownNoun(m) ==
    \E k \in SpanOf(m) : doc[k].pos = "NOUN" /\ In(doc[k].lemma, UNIVERSAL_PROBLEMS)
HasAspect(m) == HasLemma(m, {aspect_name})
KeyOf(m) == m.result.pattern_analysis_key

\* The first rule of the chain whose condition holds on the span of a match
\* (0 if none does): causal connective, verb of effect, "for what you
\* get"/"for the price", "lack of value"/"poor value", "lack of variety".
RuleOf(m) ==
    IF HasLemma(m, {"due", "because"}) THEN 1
    ELSE IF HasLemma(m, {"cause", "lead"}) THEN 2
    ELSE IF \/ HasPhrase(m, <<"for", "what", "you", "get">>)
            \/ HasPhrase(m, <<"for", "the", "price">>) THEN 3
    ELSE IF \/ HasPhrase(m, <<"lack", "of", "value">>)
            \/ HasPhrase(m, <<"poor", "value">>) THEN 4
    ELSE IF HasPhrase(m, <<"lack", "of", "variety">>) THEN 5
    ELSE 0

\* The key that a rule gives a category, "general" if it has none for it.
KeyOfRule(rule, category) ==
    CASE rule = 1 /\ category = "performance_efficiency" -> "performance_cause"
      [] rule = 1 /\ category = "usability_complexity" -> "usability_cause"
      [] rule = 1 /\ category = "service_quality" -> "service_cause"
      [] rule = 2 /\ category = "performance_efficiency" -> "problem_effect"
      [] rule = 3 /\ category = "cost_value" -> "cost_value_comparison"
      [] rule = 4 /\ category = "cost_value" -> "lack_of_value"
      [] rule = 5 /\ category = "product_content_quality" -> "lack_of_variety"
      [] OTHER -> "general"

IsSecondary(line) == "secondary_analysis_text" \in DOMAIN line.args
SecondaryAt == {k \in 1..Len(analysis_lines) : IsSecondary(analysis_lines[k])}

\* A rendered secondary text is the primary line or a part of it: it is the
\* same sentence, or it is the word "general" and the primary line has the
\* word in its template or in a value.
PartOfPrimary(text, primary) ==
    \/ text.text = primary.text /\ text.args = primary.args
    \/ /\ text.text = "general"
       /\ \/ primary.general
          \/ \E p \in DOMAIN primary.args :
                primary.args[p] \in {"general", "general factors"}

\* The text that line 332-340 render for a tuple.
SecondaryText(sec) ==
    format(get(Category(sec.category_name).analysis_themes, sec.pattern_analysis_key,
               Template("general", 0, {}, TRUE)),
           AnalysisArgs(sec))

\* A secondary line says the rendered text of the tuple, lower-cased.
SaysText(line, text) ==
    /\ line.args.secondary_analysis_text = "lower(" \o text.text \o ")"
    /\ line.args.values = text.args

\* The tuple at position idx of the ranking may give the secondary line,
\* the outcome-keys `used` being taken.
Eligible(ranked, idx, line, used) ==
    LET sec == ranked[idx].key
    IN  /\ idx > 1
        /\ sec.category_name = dominant_category
        /\ sec.pattern_analysis_key \notin used
        /\ sec.problem_adj \notin {None, ""}
        /\ sec.problem_noun \notin {None, ""}
        /\ ~PartOfPrimary(SecondaryText(sec), analysis_lines[1])
        /\ SaysText(line, SecondaryText(sec))

\* C25: at most 2 secondary analysis lines are added, after the primary
\* line; each comes from a ranked tuple other than the primary, in ranking
\* order, that has the dominant category, an outcome-key used neither by
\* the primary nor by the earlier secondary line, an adjective and a noun,
\* and a rendered text that is neither the primary line nor part of it; the
\* first is prefixed "Furthermore, " and the second "Additionally, ".
C25_SecondaryLines ==
    Analysed =>
        LET ranked == most_common(identified_patterns)
            n == Cardinality(SecondaryAt)
        IN  /\ n <= 2
            /\ n = secondary_patterns_added
            /\ SecondaryAt = 2..(n + 1)
            /\ n > 0 => ranked # <<>> /\ primary_pattern_info = ranked[1].key
            /\ n >= 1 => analysis_lines[2].args.prefix = "Furthermore, "
            /\ n = 2 => analysis_lines[3].args.prefix = "Additionally, "
            /\ n = 1 => \E i \in 2..Len(ranked) :
                Eligible(ranked, i, analysis_lines[2],
                         {primary_pattern_info.pattern_analysis_key})
            /\ n = 2 => \E i \in 2..Len(ranked) : \E j \in (i + 1)..Len(ranked) :
                /\ Eligible(ranked, i, analysis_lines[2],
                            {primary_pattern_info.pattern_analysis_key})
                /\ Eligible(ranked, j, analysis_lines[3],
                            {primary_pattern_info.pattern_analysis_key,
                             ranked[i].key.pattern_analysis_key})

\* Two secondary lines were added, and the ranking held a tuple of another
\* category, which gave none.
C25_Witness ==
    /\ Analysed
    /\ secondary_patterns_added = 2
    /\ Len(analysis_lines) = 4
    /\ IsSecondary(analysis_lines[2]) /\ IsSecondary(analysis_lines[3])
    /\ \E k \in 1..Len(identified_patterns) :
        identified_patterns[k].key.category_name # dominant_category

\* C27: every secondary analysis line is the rendering, for a ranked tuple
\* of the dominant category, of the analysis template the category has
\* under the tuple's outcome-key, or of the category's "general" template
\* when it has none under that key.
C27_SecondaryFromTemplate ==
    Analysed =>
        LET ranked == most_common(identified_patterns)
            themes == Category(dominant_category).analysis_themes
        IN  \A k \in SecondaryAt : \E i \in 2..Len(ranked) :
                LET sec == ranked[i].key
                    template == get(themes, sec.pattern_analysis_key,
                                    get(themes, "general", Template("", 0, {}, FALSE)))
                IN  /\ sec.category_name = dominant_category
                    /\ SaysText(analysis_lines[k], format(template, AnalysisArgs(sec)))

\* The lines that mention the primary problem: the primary analysis line and
\* the first recommendation.
PrimaryLines == {analysis_lines[1], recommendation_lines[1]}

\* C26: in the primary analysis line and in the first recommendation, the
\* generic one of line 397 included, the problem adjective is printed as
\* "unspecified negative" when the primary tuple has none, the problem noun
\* as the tuple's noun, which is the aspect name when the span gave none,
\* and no printed value is null.
C26_NoNullPrinted ==
    (rpc \in {"general", "number", "returned"} /\ primary_pattern_info # NoPattern) =>
        \A line \in PrimaryLines : \A p \in DOMAIN line.args :
            /\ line.args[p] # None
            /\ p \in {"problem_adj", "primary_problem_adj"} =>
                line.args[p] = IF primary_pattern_info.problem_adj \in {None, ""}
                               THEN "unspecified negative"
                               ELSE primary_pattern_info.problem_adj
            /\ p = "problem_noun" =>
                /\ line.args[p] = primary_pattern_info.problem_noun
                /\ line.args[p] # ""

\* C28: in a returned report the ordinals of the recommendation lines are
\* 1, 2, ..., k in the order of the lines, whatever the random choices were:
\* the ordinal of each line is its position.
C28_OrdinalsInOrder ==
    rpc = "returned" =>
        \A i \in 1..Len(report.recommendations_text) :
            report.recommendations_text[i].ordinal = i

C29_PdfFromCurrentDataset ==
    pdf.generated =>
        LET rows == pdf.processed_df.rows
        IN  /\ \A k \in ChartKeys :
                   pdf.chart_data[k] # NoFigure =>
                       pdf.chart_data[k] =
                           Figure(k, IF k = "word_cloud" THEN neg_contexts(rows)
                                     ELSE Mentions(rows))
            /\ \A i \in 1..Len(pdf.analysis_data) :
                   LET entry == pdf.analysis_data[i]
                   IN  /\ aspect_negative_contexts(rows, entry.aspect) # <<>>
                       /\ entry.content =
                              dynamic_output(entry.aspect,
                                             aspect_negative_contexts(rows, entry.aspect))

\* C30: whenever a page is rendered while the tables of the session are the
\* built-in sample data, the rendered page shows the sample-data warning.
C30_SampleDataWarned ==
    (shown.page # "none" /\ shown.sample) => shown.warning

====
